---- MODULE Spec2Model ----
(***************************************************************************)
(* Model of utoipa-gen/src/component/schema.rs: the derive of ToSchema.    *)
(* A declaration (struct or enum with its serde rules and schema features) *)
(* is turned into a stream of builder-call tokens.  Token streams are      *)
(* modelled as nodes [base, props, calls]: the constructor expression and  *)
(* the ordered chain of builder calls appended to it.                      *)
(***************************************************************************)
EXTENDS Integers, Sequences, FiniteSets, TLC

VARIABLES
    schema,        \* the Schema built by Schema::new (data, attributes, ident, generics, aliases)
    tokens,        \* the caller's output token stream (&mut TokenStream of Schema::to_tokens)
    pc,            \* position inside Schema::to_tokens
    variant,       \* local `variant` (SchemaVariant) of Schema::to_tokens
    variant_tokens,\* local `variant_tokens`
    aliases,       \* local `aliases` (tokens of fn aliases())
    type_aliases,  \* local `type_aliases`
    name,          \* local `name` (resolved schema name)
    diagnostics    \* the Err(Diagnostics) returned, if any

vars == <<schema, tokens, pc, variant, variant_tokens, aliases, type_aliases, name, diagnostics>>

----------------------------------------------------------------------------
(* Option<T> is a sequence of length 0 (None) or 1 (Some).                 *)
None == <<>>
Some(x) == <<x>>
IsSome(o) == Len(o) = 1
Unwrap(o) == o[1]

(* let x = value; body  *)
Bind(value, Body(_)) == Body(value)
OrElse(o, p) == IF IsSome(o) THEN o ELSE p

(* Strings are sequences of one-character strings.                         *)
RECURSIVE MapSeq(_, _)
MapSeq(Op(_), s) == IF s = <<>> THEN <<>> ELSE <<Op(Head(s))>> \o MapSeq(Op, Tail(s))

RECURSIVE SelectIdx(_, _, _)
(* indices i of s, in order, with Test(s[i]) *)
SelectIdx(Test(_), s, i) ==
    IF i > Len(s) THEN <<>>
    ELSE (IF Test(s[i]) THEN <<i>> ELSE <<>>) \o SelectIdx(Test, s, i + 1)

RECURSIVE Filter(_, _)
Filter(Test(_), s) ==
    IF s = <<>> THEN <<>>
    ELSE (IF Test(Head(s)) THEN <<Head(s)>> ELSE <<>>) \o Filter(Test, Tail(s))

RECURSIVE Concat(_)
Concat(ss) == IF ss = <<>> THEN <<>> ELSE Head(ss) \o Concat(Tail(ss))

----------------------------------------------------------------------------
(* Results: Ok(value) or Err(diagnostics).                                 *)
Ok(v) == [ok |-> TRUE, val |-> v, err |-> <<>>]
Err(d) == [ok |-> FALSE, val |-> <<>>, err |-> d]

(* Token nodes.                                                            *)
(* A node is a constructor expression (base) with its arguments (cs: the    *)
(* ComponentSchemaProps, values: strings, items: nested nodes) followed by  *)
(* the chain of builder calls; a call has a string argument k, nested       *)
(* token arguments arg and a number n.                                      *)
Node5(base, cs, values, items, calls) ==
    [base |-> base, cs |-> cs, values |-> values, items |-> items, calls |-> calls]
Node(base, calls) == Node5(base, <<>>, <<>>, <<>>, calls)
Call(m, k, arg) == [m |-> m, k |-> k, arg |-> arg, n |-> 0]
CallN(m, n) == [m |-> m, k |-> <<>>, arg |-> <<>>, n |-> n]
Extend(node, calls) == [node EXCEPT !.calls = @ \o calls]

----------------------------------------------------------------------------
(* Type trees (TypeTree of the component module): a path name and the      *)
(* generic arguments as children.                                          *)
Ty(n, args) == [name |-> n, args |-> args]

is_option(type_tree) == type_tree.name = "Option"

is_map(type_tree) == type_tree.name \in {"HashMap", "BTreeMap"}

(* syn::Path: [leading_colon, segments].                                    *)
NoPath == [leading_colon |-> FALSE, segments |-> <<>>]
NoTy == Ty("", <<>>)

(* Vec<Feature>: a feature is its kind and its payload: a flag b, a type    *)
(* ty, a string s or a path, by kind.                                       *)
Feature5(kind, b, ty, str, path) == [f |-> kind, b |-> b, ty |-> ty, s |-> str, path |-> path]
Feature(kind, str) == Feature5(kind, FALSE, NoTy, str, NoPath)
RequiredFeature(b) == Feature5("Required", b, NoTy, <<>>, NoPath)
ValueTypeFeature(ty) == Feature5("ValueType", FALSE, ty, <<>>, NoPath)
AsFeature(path) == Feature5("As", FALSE, NoTy, <<>>, path)

HasFeature(features, kind) == \E i \in 1..Len(features) : features[i].f = kind

FirstFeature(features, kind) ==
    CHOOSE i \in 1..Len(features) :
        /\ features[i].f = kind
        /\ \A j \in 1..(i - 1) : features[j].f # kind

(* pop_feature!(features => Feature::Kind(_)): the first feature of the    *)
(* kind is removed from the vector and returned.                           *)
remove_at(features, i) ==
    [popped |-> Some(features[i]),
     rest |-> SubSeq(features, 1, i - 1) \o SubSeq(features, i + 1, Len(features))]
pop_feature(features, kind) ==
    IF HasFeature(features, kind)
    THEN remove_at(features, FirstFeature(features, kind))
    ELSE [popped |-> None, rest |-> features]

(* Features rendered as builder calls, in vector order.                     *)
FeatureCall(feature) == Call(feature.f, feature.s, <<>>)
features_to_token_stream(features) == MapSeq(FeatureCall, features)

----------------------------------------------------------------------------
(* Naming.  RenameRule::rename of the serde module for two of its rules.    *)
UpperChar(c) ==
    CASE c = "a" -> "A" [] c = "b" -> "B" [] c = "c" -> "C" [] c = "d" -> "D"
      [] c = "e" -> "E" [] c = "r" -> "R" [] c = "t" -> "T" [] c = "z" -> "Z"
      [] OTHER -> c
LowerChar(c) ==
    CASE c = "A" -> "a" [] c = "B" -> "b" [] c = "C" -> "c" [] c = "D" -> "d"
      [] c = "E" -> "e" [] c = "R" -> "r" [] c = "T" -> "t" [] c = "Z" -> "z"
      [] OTHER -> c

RenameRule_rename(rule, value) ==
    IF rule = "UPPERCASE" THEN MapSeq(UpperChar, value)
    ELSE IF rule = "lowercase" THEN MapSeq(LowerChar, value)
    ELSE value

(* super::rename(value, to, container_rule): the explicit rename, else the  *)
(* container rule applied to the value, else None.                          *)
rename(value, to, container_rule) ==
    IF IsSome(to) THEN to
    ELSE IF IsSome(container_rule) THEN Some(RenameRule_rename(Unwrap(container_rule), value))
    ELSE None

is_not_skipped(rule) == ~rule.skip

is_flatten(rule) == rule.flatten

(* super::is_required(field_rules, container_rules): the serde rules leave  *)
(* the field required when neither it nor its container is defaulted.       *)
is_required(field_rules, container_rules) ==
    ~field_rules.default /\ ~container_rules.default

(* serde::parse_value(&field.attrs) / serde::parse_container(attributes):   *)
(* the already-parsed rule objects carried by the declaration.              *)
parse_value(item) == item.serde
parse_container(attributes) == attributes.container

(* super::get_deprecated(attrs): Rust's #[deprecated] attribute.            *)
get_deprecated(attributes) == IF attributes.deprecated THEN Some("True") ELSE None

(* CommentAttributes::from_attributes(attrs).as_formatted_string()          *)
as_formatted_string(attributes) == attributes.doc

----------------------------------------------------------------------------
(* NamedStructSchema                                                        *)

(* TypeTree::find_mut followed by the assignment through the returned       *)
(* reference: one node of the tree, the first in pre-order whose path is    *)
(* the matcher's, is replaced.  hit tells whether a node was replaced.      *)
RECURSIVE find_mut_assign(_, _, _)
RECURSIVE find_mut_children(_, _, _, _)
RECURSIVE find_mut_child(_, _, _, _, _)
find_mut_in_children(type_tree, found) ==
    [hit |-> found.hit, tree |-> [type_tree EXCEPT !.args = found.args]]
find_mut_assign(type_tree, old_generic_matcher, new_generic) ==
    IF type_tree.name = old_generic_matcher.name
    THEN [hit |-> TRUE, tree |-> new_generic]
    ELSE find_mut_in_children(type_tree,
            find_mut_children(type_tree.args, 1, old_generic_matcher, new_generic))
find_mut_child(args, i, old_generic_matcher, new_generic, found) ==
    IF found.hit THEN [hit |-> TRUE, args |-> [args EXCEPT ![i] = found.tree]]
    ELSE find_mut_children(args, i + 1, old_generic_matcher, new_generic)
find_mut_children(args, i, old_generic_matcher, new_generic) ==
    IF i > Len(args) THEN [hit |-> FALSE, args |-> args]
    ELSE find_mut_child(args, i, old_generic_matcher, new_generic,
            find_mut_assign(args[i], old_generic_matcher, new_generic))

(* for (new_generic, old_generic_matcher) in aliases.iter() { ... }         *)
RECURSIVE apply_aliases(_, _, _)
apply_aliases(type_tree, alias_pairs, i) ==
    IF i > Len(alias_pairs) THEN type_tree
    ELSE apply_aliases(
            find_mut_assign(type_tree, alias_pairs[i].old, alias_pairs[i].new).tree,
            alias_pairs, i + 1)

(* Property::to_tokens: the tokens of a field's schema.                     *)
Property(kind, cs, values) == [kind |-> kind, node |-> Node5(kind, cs, values, <<>>, <<>>)]

(* lines 310-321: the declared type with the alias's generics substituted.   *)
field_type_tree(self, field) ==
    IF IsSome(self.aliases)
    THEN apply_aliases(field.ty, Unwrap(self.aliases), 1)
    ELSE field.ty

(* the struct's default given to every field of a defaulted struct           *)
field_features_of_Overrides(self, field, container_rules) ==
    IF HasFeature(self.features, "Default") \/ container_rules.default
    THEN Append(field.attrs.features,
                Feature("Default",
                        <<"default_trait">> \o self.struct_name \o <<".">> \o field.ident))
    ELSE field.attrs.features

(* lines 323-347: the field's parsed features, with the default of the       *)
(* struct's Default implementation when the struct is defaulted and the      *)
(* field has no default of its own.                                          *)
field_features_of(self, field, container_rules) ==
    IF (HasFeature(self.features, "Default") \/ container_rules.default)
       /\ ~HasFeature(field.attrs.features, "Default")
    THEN Append(field.attrs.features,
                Feature("Default",
                        <<"default_trait">> \o self.struct_name \o <<".">> \o field.ident))
    ELSE field.attrs.features

(* lines 349-356: get_deprecated(attrs).or_else(|| pop Deprecated feature)   *)
field_deprecated(field, field_features) ==
    IF IsSome(get_deprecated(field.attrs))
    THEN [popped |-> get_deprecated(field.attrs), rest |-> field_features]
    ELSE IF HasFeature(field_features, "Deprecated")
         THEN [popped |-> Some("True"), rest |-> pop_feature(field_features, "Deprecated").rest]
         ELSE [popped |-> None, rest |-> field_features]

(* lines 358-372: the features popped one after the other, each from what    *)
(* the pop before it left.                                                   *)
RECURSIVE pop_features(_, _, _)
pop_features_step(popped, kinds, one) ==
    pop_features([popped |-> Append(popped.popped, one.popped), rest |-> one.rest],
                 kinds, Len(popped.popped) + 2)
pop_features(popped, kinds, i) ==
    IF i > Len(kinds) THEN popped
    ELSE pop_features_step(popped, kinds, pop_feature(popped.rest, kinds[i]))

(* lines 364-397: the options from what was popped.                          *)
field_options(self, field, field_rules, deprecated, rename_field, type_tree, schema_with, required, features) ==
    [property |->
        IF IsSome(schema_with)
        THEN Property("SchemaWith", <<>>, <<Unwrap(schema_with).s>>)
        ELSE Property(IF is_flatten(field_rules) /\ is_map(type_tree)
                      THEN "FlattenedMap" ELSE "Schema",
                      <<[type_tree |-> type_tree,
                         features |-> features,
                         description |-> as_formatted_string(field.attrs),
                         deprecated |-> deprecated,
                         object_name |-> self.struct_name]>>, <<>>),
     rename_field_value |-> IF IsSome(rename_field) THEN Some(Unwrap(rename_field).s) ELSE None,
     required |-> IF IsSome(required) THEN Some(Unwrap(required).b) ELSE None,
     is_option |-> is_option(type_tree)]

(* lines 364-369, 384: the value_type override, else the field's type.       *)
field_options_popped(self, field, field_rules, deprecated, popped) ==
    field_options(self, field, field_rules, deprecated,
                  popped.popped[1],
                  IF IsSome(popped.popped[2]) THEN Unwrap(popped.popped[2]).ty
                  ELSE field_type_tree(self, field),
                  popped.popped[3], popped.popped[4], popped.rest)

field_options_deprecated(self, field, field_rules, dep) ==
    field_options_popped(self, field, field_rules, dep.popped,
        pop_features([popped |-> <<>>, rest |-> dep.rest],
                     <<"Rename", "ValueType", "SchemaWith", "Required">>, 1))

get_named_struct_field_options(self, field, field_rules, container_rules) ==
    field_options_deprecated(self, field, field_rules,
        field_deprecated(field, field_features_of(self, field, container_rules)))

(* Diagnostics::with_span(..., message).note(...)                            *)
Diagnostics(kind, info) == [kind |-> kind, info |-> info]

(* lines 408-412: the field's identifier as a string, without a leading r#. *)
strip_raw(field_name) ==
    IF Len(field_name) >= 2 /\ field_name[1] = "r" /\ field_name[2] = "#"
    THEN SubSeq(field_name, 3, Len(field_name))
    ELSE field_name
field_name_of(field) == strip_raw(field.ident)

(* lines 404-427: per field (field_options, field_rules, field_name, field). *)
named_struct_field(self, container_rules, field, field_rules) ==
    [options |-> get_named_struct_field_options(self, field, field_rules, container_rules),
     field_rules |-> field_rules,
     field_name |-> field_name_of(field),
     field |-> field]
named_struct_fields(self, container_rules) ==
    [i \in 1..Len(self.fields) |->
        named_struct_field(self, container_rules, self.fields[i],
                           parse_value(self.fields[i].attrs))]

(* lines 458-470: the name a property is emitted under.                      *)
unwrap_or(renamed, field_name) == IF IsSome(renamed) THEN Unwrap(renamed) ELSE field_name
named_field_name(self, container_rules, entry) ==
    unwrap_or(rename(entry.field_name,
                     OrElse(entry.field_rules.rename, entry.options.rename_field_value),
                     OrElse(container_rules.rename_all, self.rename_all)),
              entry.field_name)

(* the override consulted only for a non-optional type                       *)
named_field_required_NoOverrideForOption(container_rules, entry) ==
    ~entry.options.is_option
    /\ (\/ is_required(entry.field_rules, container_rules)
        \/ (IF IsSome(entry.options.required) THEN Unwrap(entry.options.required) ELSE FALSE))

(* lines 476-480: whether .required(name) is emitted for the field.          *)
named_field_required(container_rules, entry) ==
    \/ (~entry.options.is_option /\ is_required(entry.field_rules, container_rules))
    \/ (IF IsSome(entry.options.required) THEN Unwrap(entry.options.required) ELSE FALSE)

(* the body of the fold, lines 445-488                                       *)
property_calls(prop_name, property, required) ==
    <<Call("property", prop_name, <<property.node>>)>>
    \o (IF required THEN <<Call("required", prop_name, <<>>)>> ELSE <<>>)
named_field_calls(self, container_rules, entry) ==
    property_calls(named_field_name(self, container_rules, entry),
                   entry.options.property,
                   named_field_required(container_rules, entry))

(* every field that is not skipped, the flattened ones too                   *)
is_property_field_KeepsFlattened(entry) == is_not_skipped(entry.field_rules)

(* lines 429-431: the fields that become properties.                         *)
is_property_field(entry) == is_not_skipped(entry.field_rules) /\ ~is_flatten(entry.field_rules)

(* lines 491-494 *)
is_flatten_field(entry) == is_flatten(entry.field_rules)

(* lines 429-489: ObjectBuilder::new() and the fold over the property fields *)
RECURSIVE object_fold(_, _, _, _)
object_fold(self, container_rules, entries, i) ==
    IF i > Len(entries) THEN <<>>
    ELSE named_field_calls(self, container_rules, entries[i])
         \o object_fold(self, container_rules, entries, i + 1)

(* lines 500-529: the loop over the flattened fields.  st carries            *)
(* flattened_tokens, object_tokens and flattened_map_field.                  *)
RECURSIVE flatten_loop(_, _, _, _)
(* a later flattened map replaces the earlier one instead of failing         *)
flatten_loop_body_LastMapWins(self, flatten_fields, i, st, field, property) ==
    IF property.kind \in {"Schema", "SchemaWith"}
    THEN flatten_loop(self, flatten_fields, i + 1,
            [st EXCEPT !.flattened_tokens =
                Append(@, Call("item", <<>>, <<property.node>>))])
    ELSE flatten_loop(self, flatten_fields, i + 1,
            [st EXCEPT
                !.object_tokens =
                    Extend(@, <<Call("additional_properties", <<>>, <<property.node>>)>>),
                !.flattened_map_field = Some(field.ident)])

(* a flattened map becomes an item of the AllOf like any flattened field     *)
flatten_loop_body_MapAsItem(self, flatten_fields, i, st, field, property) ==
    flatten_loop(self, flatten_fields, i + 1,
        [st EXCEPT !.flattened_tokens = Append(@, Call("item", <<>>, <<property.node>>))])

(* lines 500-529: one iteration of the loop.                                 *)
flatten_loop_body(self, flatten_fields, i, st, field, property) ==
    IF property.kind \in {"Schema", "SchemaWith"}
    THEN flatten_loop(self, flatten_fields, i + 1,
            [st EXCEPT !.flattened_tokens =
                Append(@, Call("item", <<>>, <<property.node>>))])
    ELSE IF st.flattened_map_field = None
         THEN flatten_loop(self, flatten_fields, i + 1,
                [st EXCEPT
                    !.object_tokens =
                        Extend(@, <<Call("additional_properties", <<>>, <<property.node>>)>>),
                    !.flattened_map_field = Some(field.ident)])
         ELSE Err(Diagnostics("multiple flattened map fields",
                    <<self.struct_name, Unwrap(st.flattened_map_field), field.ident>>))
flatten_loop(self, flatten_fields, i, st) ==
    IF i > Len(flatten_fields) THEN Ok(st)
    ELSE flatten_loop_body(self, flatten_fields, i, st, flatten_fields[i].field,
                           flatten_fields[i].options.property)

(* lines 547-566: what follows the object or the AllOf.                      *)
named_struct_tail(self, container_rules, all_of) ==
    (IF ~all_of /\ container_rules.deny_unknown_fields
     THEN <<Call("additional_properties", <<>>, <<Node("FreeForm(false)", <<>>)>>)>>
     ELSE <<>>)
    \o (IF IsSome(get_deprecated(self.attributes))
        THEN <<Call("deprecated", <<>>, <<>>)>> ELSE <<>>)
    \o features_to_token_stream(self.features)
    \o (IF as_formatted_string(self.attributes) # <<>>
        THEN <<Call("description", as_formatted_string(self.attributes), <<>>)>> ELSE <<>>)

(* lines 531-566: the object alone when nothing was flattened into an       *)
(* item, else an AllOf of the flattened items and the object.               *)
named_struct_finish(self, container_rules, r) ==
    IF ~r.ok THEN r
    ELSE IF r.val.flattened_tokens = <<>>
         THEN Ok(Extend(r.val.object_tokens, named_struct_tail(self, container_rules, FALSE)))
         ELSE Ok(Node("AllOfBuilder",
                    r.val.flattened_tokens
                    \o <<Call("item", <<>>, <<r.val.object_tokens>>)>>
                    \o named_struct_tail(self, container_rules, TRUE)))

(* lines 429-529: the object of the property fields, then the loop over the  *)
(* flattened fields (no iteration when there is none).                       *)
named_struct_with_fields(self, container_rules, fields) ==
    named_struct_finish(self, container_rules,
        flatten_loop(self, Filter(is_flatten_field, fields), 1,
            [flattened_tokens |-> <<>>,
             object_tokens |->
                Node("ObjectBuilder",
                     object_fold(self, container_rules, Filter(is_property_field, fields), 1)),
             flattened_map_field |-> None]))

(* NamedStructSchema::to_tokens, into an empty token stream.                 *)
NamedStructSchema_to_tokens(self) ==
    named_struct_with_fields(self, parse_container(self.attributes),
        named_struct_fields(self, parse_container(self.attributes)))

(* A panic of the macro (unwrap on None, panic!): no Diagnostics is built.   *)
Panic(what) == [ok |-> FALSE, val |-> <<>>, err |-> Diagnostics("panic", what)]
IsPanic(r) == ~r.ok /\ r.err.kind = "panic"

----------------------------------------------------------------------------
(* UnnamedStructSchema                                                       *)

(* pop_feature!(features => Feature::Default(Default(None)))                 *)
HasDefaultNone(features) ==
    \E i \in 1..Len(features) : features[i].f = "Default" /\ features[i].s = <<>>
FirstDefaultNone(features) ==
    CHOOSE k \in 1..Len(features) :
        /\ features[k].f = "Default" /\ features[k].s = <<>>
        /\ \A j \in 1..(k - 1) : ~(features[j].f = "Default" /\ features[j].s = <<>>)
pop_default_none(features) ==
    IF HasDefaultNone(features)
    THEN remove_at(features, FirstDefaultNone(features))
    ELSE [popped |-> None, rest |-> features]

(* lines 587-595 *)
all_fields_are_same(fields) ==
    \/ Len(fields) = 1
    \/ \A i \in 2..Len(fields) : fields[1].ty = fields[i].ty

(* the array wrapped around a single field too                               *)
unnamed_array_calls_AlwaysArray(self) ==
    <<Call("to_array_builder", <<>>, <<>>),
      Call("description", as_formatted_string(self.attributes), <<>>),
      CallN("max_items", Len(self.fields)),
      CallN("min_items", Len(self.fields))>>

(* lines 649-655 *)
unnamed_array_calls(self) ==
    IF Len(self.fields) > 1
    THEN <<Call("to_array_builder", <<>>, <<>>),
           Call("description", as_formatted_string(self.attributes), <<>>),
           CallN("max_items", Len(self.fields)),
           CallN("min_items", Len(self.fields))>>
    ELSE <<>>

(* lines 607-619: with one field, a Default(None) feature is replaced by    *)
(* the default of the struct's Default implementation, pushed last.         *)
unnamed_struct_default(self, features) ==
    IF Len(self.fields) = 1 /\ HasDefaultNone(features)
    THEN Append(pop_default_none(features).rest,
                Feature("Default", <<"default_trait">> \o self.struct_name \o <<".", "0">>))
    ELSE features

(* lines 599-630 *)
unnamed_struct_schema(self, value_type) ==
    Node5("Schema",
          <<[type_tree |-> IF IsSome(value_type.popped) THEN Unwrap(value_type.popped).ty
                           ELSE self.fields[1].ty,
             features |-> unnamed_struct_default(self, value_type.rest),
             description |-> as_formatted_string(self.attributes),
             deprecated |-> get_deprecated(self.attributes),
             object_name |-> self.struct_name]>>,
          <<>>, <<>>, unnamed_array_calls(self))

(* UnnamedStructSchema::to_tokens, into an empty token stream.               *)
UnnamedStructSchema_to_tokens(self) ==
    IF Len(self.fields) = 0 THEN Panic(<<"first().unwrap()">>)
    ELSE IF all_fields_are_same(self.fields)
         THEN Ok(unnamed_struct_schema(self, pop_feature(self.features, "ValueType")))
         ELSE Ok(Node("ObjectBuilder",
                    (IF IsSome(get_deprecated(self.attributes))
                     THEN <<Call("deprecated", <<>>, <<>>)>> ELSE <<>>)
                    \o features_to_token_stream(self.features)
                    \o unnamed_array_calls(self)))

----------------------------------------------------------------------------
(* Enums                                                                     *)

(* the schema attribute's rename and rename_all taken before serde's         *)
rename_enum_variant_popped_FeatureFirst(variant_ident, rn, variant_rules, container_rules, rename_all) ==
    [name |-> rename(variant_ident,
                     OrElse(IF IsSome(rn.popped) THEN Some(Unwrap(rn.popped).s) ELSE None,
                            variant_rules.rename),
                     OrElse(rename_all, container_rules.rename_all)),
     rest |-> rn.rest]

(* rename_enum_variant: the Rename feature is popped from the variant's      *)
(* features; the result is the Option returned by super::rename.             *)
rename_enum_variant_popped(variant_ident, rn, variant_rules, container_rules, rename_all) ==
    [name |-> rename(variant_ident,
                     OrElse(variant_rules.rename,
                            IF IsSome(rn.popped) THEN Some(Unwrap(rn.popped).s) ELSE None),
                     OrElse(container_rules.rename_all, rename_all)),
     rest |-> rn.rest]
rename_enum_variant(variant_ident, features, variant_rules, container_rules, rename_all) ==
    rename_enum_variant_popped(variant_ident, pop_feature(features, "Rename"),
                               variant_rules, container_rules, rename_all)

(* variant_name.unwrap_or(Cow::Borrowed(&name))                              *)
unwrap_or_name(renamed, variant_ident) ==
    IF IsSome(renamed) THEN Unwrap(renamed) ELSE variant_ident

(* SchemaFeatureExt::split_for_title                                         *)
IsTitle(feature) == feature.f = "Title"
IsNotTitle(feature) == feature.f # "Title"
split_for_title(features) ==
    [title |-> Filter(IsTitle, features), rest |-> Filter(IsNotTitle, features)]

(* title_features.first().map(to_token_stream)                               *)
title_calls(title_features) ==
    IF title_features = <<>> THEN <<>> ELSE <<FeatureCall(title_features[1])>>

(* The enum_variant builders, kept as constructor nodes over their items.    *)
Enum_new(values) == Node5("Enum", <<>>, values, <<>>, <<>>)
TaggedEnum_new(tag, values) ==
    Node5("TaggedEnum", <<>>, values, <<>>, <<Call("tag", tag, <<>>)>>)
AdjacentlyTaggedEnum_new(tag, content, values) ==
    Node5("AdjacentlyTaggedEnum", <<>>, values, <<>>,
          <<Call("tag", tag, <<>>), Call("content", content, <<>>)>>)
UntaggedEnum_new == Node("UntaggedEnum", <<>>)
ObjectVariant(variant_name, title, example, item) ==
    Node5("ObjectVariant", <<>>, <<variant_name>>, <<item>>, title \o example)

(* the NamedStructSchema built for a variant (lines 1049-1058, 1149-1158,   *)
(* 1215-1224, 1374-1383): rename_all is popped from the variant's features. *)
variant_named_struct(self, v, features) ==
    Bind(pop_feature(features, "RenameAll"), LAMBDA ra :
        [struct_name |-> self.enum_name,
         attributes |-> v.attrs,
         rename_all |-> IF IsSome(ra.popped) THEN Some(Unwrap(ra.popped).s[1]) ELSE None,
         features |-> ra.rest,
         fields |-> v.fields.list,
         aliases |-> None,
         schema_as |-> None])

(* the UnnamedStructSchema built for a variant                               *)
variant_unnamed_struct(self, v, features) ==
    [struct_name |-> self.enum_name,
     attributes |-> v.attrs,
     features |-> features,
     fields |-> v.fields.list,
     schema_as |-> None]

(* lines 1026-1047, 1062-1083: title split off, Rename and Example popped.  *)
variant_object(self, v, variant_rules, container_rules, rename_all, Item(_)) ==
    Bind(split_for_title(v.attrs.features), LAMBDA sp :
    Bind(rename_enum_variant(v.ident, sp.rest, variant_rules, container_rules, rename_all),
         LAMBDA rn :
    Bind(pop_feature(rn.rest, "Example"), LAMBDA ex :
    Bind(Item(ex.rest), LAMBDA item :
        IF ~item.ok THEN item
        ELSE Ok(ObjectVariant(unwrap_or_name(rn.name, v.ident), title_calls(sp.title),
                    MapSeq(FeatureCall, ex.popped), item.val))))))

(* the unit variant wrapped as an object variant of an empty object         *)
variant_unit_AsObjectVariant(v, variant_rules, container_rules, rename_all) ==
    Bind(rename_enum_variant(v.ident, v.attrs.features, variant_rules, container_rules,
                             rename_all), LAMBDA rn :
        Ok(ObjectVariant(unwrap_or_name(rn.name, v.ident), <<>>, <<>>,
                         Node("ObjectBuilder", <<>>))))

(* lines 1093-1134 *)
variant_unit(v, variant_rules, container_rules, rename_all) ==
    Bind(pop_feature(v.attrs.features, "Title"), LAMBDA tl :
    Bind(rename_enum_variant(v.ident, tl.rest, variant_rules, container_rules, rename_all),
         LAMBDA rn :
    Bind(pop_feature(rn.rest, "Example"), LAMBDA ex :
        Ok(Extend(Enum_new(<<unwrap_or_name(rn.name, v.ident)>>),
              MapSeq(FeatureCall, tl.popped)
              \o MapSeq(FeatureCall, ex.popped)
              \o (IF as_formatted_string(v.attrs) # <<>>
                  THEN <<Call("Description", as_formatted_string(v.attrs), <<>>)>>
                  ELSE <<>>))))))

(* ComplexEnum::variant_tokens (ExternallyTagged)                            *)
ComplexEnum_variant_tokens(self, v, variant_rules, container_rules, rename_all) ==
    IF v.fields.kind = "Named" THEN
        variant_object(self, v, variant_rules, container_rules, rename_all,
            LAMBDA features : NamedStructSchema_to_tokens(variant_named_struct(self, v, features)))
    ELSE IF v.fields.kind = "Unnamed" THEN
        variant_object(self, v, variant_rules, container_rules, rename_all,
            LAMBDA features : UnnamedStructSchema_to_tokens(variant_unnamed_struct(self, v, features)))
    ELSE variant_unit(v, variant_rules, container_rules, rename_all)

(* ComplexEnum::untagged_variant_tokens                                      *)
untagged_variant_tokens(self, v) ==
    IF v.fields.kind = "Named"
    THEN NamedStructSchema_to_tokens(variant_named_struct(self, v, v.attrs.features))
    ELSE IF v.fields.kind = "Unnamed"
    THEN UnnamedStructSchema_to_tokens(variant_unnamed_struct(self, v, v.attrs.features))
    ELSE Ok(Extend(UntaggedEnum_new,
                   MapSeq(FeatureCall, pop_feature(v.attrs.features, "Title").popped)))

(* TypeTree.value_type: Primitive for the built-in scalar types, Object for  *)
(* every other path.                                                         *)
PrimitiveTypes == {"String", "i32", "bool"}
value_type(type_tree) == IF type_tree.name \in PrimitiveTypes THEN "Primitive" ELSE "Object"

(* no inner type taken for a reference                                       *)
is_reference_Never(fields) == FALSE

(* lines 1276-1282 *)
is_reference(fields) == \E i \in 1..Len(fields) : value_type(fields[i].ty) = "Object"

(* .property(#tag, #variant_name_tokens).required(#tag)                      *)
tag_calls(tag, variant_name) ==
    <<Call("property", tag, <<Enum_new(<<variant_name>>)>>), Call("required", tag, <<>>)>>

(* lines 1328-1341, 1477-1487: the unit variant under a tag.                *)
tagged_unit(tag, v, variant_rules, container_rules, rename_all) ==
    Bind(pop_feature(v.attrs.features, "Title"), LAMBDA tl :
    Bind(rename_enum_variant(v.ident, tl.rest, variant_rules, container_rules, rename_all),
         LAMBDA rn :
        Ok(Node("ObjectBuilder",
            MapSeq(FeatureCall, tl.popped)
            \o tag_calls(tag, unwrap_or_name(rn.name, v.ident))))))

(* the title split off and Rename popped, then the variant's own schema      *)
tagged_item(v, variant_rules, container_rules, rename_all, Item(_), Tokens(_, _, _)) ==
    Bind(split_for_title(v.attrs.features), LAMBDA sp :
    Bind(rename_enum_variant(v.ident, sp.rest, variant_rules, container_rules, rename_all),
         LAMBDA rn :
    Bind(Item(rn.rest), LAMBDA item :
        IF ~item.ok THEN item
        ELSE Ok(Tokens(title_calls(sp.title), unwrap_or_name(rn.name, v.ident), item.val)))))

(* ComplexEnum::tagged_variant_tokens (InternallyTagged)                     *)
tagged_variant_tokens(self, tag, v, variant_rules, container_rules, rename_all) ==
    IF v.fields.kind = "Named" THEN
        tagged_item(v, variant_rules, container_rules, rename_all,
            LAMBDA features : NamedStructSchema_to_tokens(variant_named_struct(self, v, features)),
            LAMBDA title, variant_name, named_enum_tokens :
                Extend(named_enum_tokens, title \o tag_calls(tag, variant_name)))
    ELSE IF v.fields.kind = "Unnamed" THEN
        IF Len(v.fields.list) = 1 THEN
            tagged_item(v, variant_rules, container_rules, rename_all,
                LAMBDA features :
                    UnnamedStructSchema_to_tokens(variant_unnamed_struct(self, v, features)),
                LAMBDA title, variant_name, unnamed_enum_tokens :
                    IF is_reference(v.fields.list)
                    THEN Node("AllOfBuilder",
                            title
                            \o <<Call("item", <<>>, <<unnamed_enum_tokens>>),
                                 Call("item", <<>>,
                                    <<Node("ObjectBuilder",
                                        <<Call("schema_type", <<"Object">>, <<>>)>>
                                        \o tag_calls(tag, variant_name))>>)>>)
                    ELSE Extend(unnamed_enum_tokens,
                            title
                            \o <<Call("schema_type", <<"Object">>, <<>>)>>
                            \o tag_calls(tag, variant_name)))
        ELSE Err(Diagnostics("unnamed variants unsupported for internally tagged enums",
                             <<v.ident>>))
    ELSE tagged_unit(tag, v, variant_rules, container_rules, rename_all)

(* the content placed without marking it required                            *)
adjacent_object_ContentOptional(tag, content, title, variant_name, item) ==
    Node("ObjectBuilder",
        title
        \o <<Call("schema_type", <<"Object">>, <<>>)>>
        \o tag_calls(tag, variant_name)
        \o <<Call("property", content, <<item>>)>>)

(* lines 1391-1401, 1447-1457: tag and content around the variant's schema.  *)
adjacent_object(tag, content, title, variant_name, item) ==
    Node("ObjectBuilder",
        title
        \o <<Call("schema_type", <<"Object">>, <<>>)>>
        \o tag_calls(tag, variant_name)
        \o <<Call("property", content, <<item>>), Call("required", content, <<>>)>>)

(* ComplexEnum::adjacently_tagged_variant_tokens                             *)
adjacently_tagged_variant_tokens(self, tag, content, v, variant_rules, container_rules, rename_all) ==
    IF v.fields.kind = "Named" THEN
        tagged_item(v, variant_rules, container_rules, rename_all,
            LAMBDA features : NamedStructSchema_to_tokens(variant_named_struct(self, v, features)),
            LAMBDA title, variant_name, named_enum_tokens :
                adjacent_object(tag, content, title, variant_name, named_enum_tokens))
    ELSE IF v.fields.kind = "Unnamed" THEN
        IF Len(v.fields.list) = 1 THEN
            tagged_item(v, variant_rules, container_rules, rename_all,
                LAMBDA features :
                    UnnamedStructSchema_to_tokens(variant_unnamed_struct(self, v, features)),
                LAMBDA title, variant_name, unnamed_enum_tokens :
                    adjacent_object(tag, content, title, variant_name, unnamed_enum_tokens))
        ELSE Err(Diagnostics("unnamed variants unsupported for adjacently tagged enums",
                             <<v.ident>>))
    ELSE tagged_unit(tag, v, variant_rules, container_rules, rename_all)

(* the tag of the internally tagged representation only                     *)
complex_enum_tag_OnlyInternal(enum_repr) ==
    IF enum_repr.kind = "InternallyTagged" THEN Some(enum_repr.tag) ELSE None

(* lines 1498-1505: the tag handed to with_discriminator.                    *)
complex_enum_tag(enum_repr) ==
    IF enum_repr.kind \in {"AdjacentlyTagged", "InternallyTagged"}
    THEN Some(enum_repr.tag) ELSE None

(* every representation handled as the externally tagged one                *)
complex_variant_under_AlwaysExternal(self, enum_repr, container_rules, v, variant_serde_rules) ==
    ComplexEnum_variant_tokens(self, v, variant_serde_rules, container_rules, self.rename_all)

(* lines 1525-1555: the fragment of one variant under the representation.    *)
complex_variant_under(self, enum_repr, container_rules, v, variant_serde_rules) ==
    IF enum_repr.kind = "ExternallyTagged"
    THEN ComplexEnum_variant_tokens(self, v, variant_serde_rules, container_rules, self.rename_all)
    ELSE IF enum_repr.kind = "InternallyTagged"
    THEN tagged_variant_tokens(self, enum_repr.tag, v, variant_serde_rules,
                               container_rules, self.rename_all)
    ELSE IF enum_repr.kind = "Untagged"
    THEN untagged_variant_tokens(self, v)
    ELSE adjacently_tagged_variant_tokens(self, enum_repr.tag, enum_repr.content, v,
                               variant_serde_rules, container_rules, self.rename_all)
complex_variant(self, container_rules, v) ==
    complex_variant_under(self, container_rules.enum_repr, container_rules, v,
                          parse_value(v.attrs))

(* no variant left out                                                       *)
variant_not_skipped_KeepsAll(v) == TRUE

(* lines 1515-1521 *)
variant_not_skipped(v) == is_not_skipped(parse_value(v.attrs))

(* .map(...).collect::<Result<CustomEnum, Diagnostics>>(): the fragments in  *)
(* order, or the first failure.                                              *)
RECURSIVE collect_variants(_, _, _, _, _)
collect_variants(self, container_rules, variants, i, acc) ==
    IF i > Len(variants) THEN Ok(acc)
    ELSE Bind(complex_variant(self, container_rules, variants[i]), LAMBDA r :
            IF ~r.ok THEN r
            ELSE collect_variants(self, container_rules, variants, i + 1, Append(acc, r.val)))

(* ComplexEnum::to_tokens *)
ComplexEnum_to_tokens(self) ==
    Bind(parse_container(self.attributes), LAMBDA container_rules :
    Bind(complex_enum_tag(container_rules.enum_repr), LAMBDA tag :
    Bind(collect_variants(self, container_rules,
                          Filter(variant_not_skipped, self.variants), 1, <<>>), LAMBDA items :
        IF ~items.ok THEN items
        ELSE Ok(Node5("CustomEnum", <<>>, <<>>, items.val,
                    <<IF IsSome(tag) THEN Call("with_discriminator(Some)", Unwrap(tag), <<>>)
                      ELSE Call("with_discriminator(None)", <<>>, <<>>)>>
                    \o features_to_token_stream(self.enum_features))))))

(* regular_enum_to_tokens *)
regular_enum_to_tokens(container_rules, enum_variant_features, enum_values) ==
    Bind(container_rules.enum_repr, LAMBDA enum_repr :
        Extend(IF enum_repr.kind = "ExternallyTagged" THEN Enum_new(enum_values)
               ELSE IF enum_repr.kind = "InternallyTagged"
               THEN TaggedEnum_new(enum_repr.tag, enum_values)
               ELSE IF enum_repr.kind = "Untagged" THEN UntaggedEnum_new
               ELSE AdjacentlyTaggedEnum_new(enum_repr.tag, enum_repr.content, enum_values),
               enum_variant_features))

(* lines 923-957: the value of one variant of a SimpleEnum.                  *)
simple_enum_value(self, container_rules, v) ==
    unwrap_or_name(rename_enum_variant(v.ident, v.attrs.features, parse_value(v.attrs),
                                       container_rules, self.rename_all).name,
                   v.ident)

(* SimpleEnum::to_tokens *)
SimpleEnum_to_tokens(self) ==
    Ok(regular_enum_to_tokens(parse_container(self.attributes),
            features_to_token_stream(self.enum_features),
            MapSeq(LAMBDA v : simple_enum_value(self, parse_container(self.attributes), v),
                   Filter(variant_not_skipped, self.variants))))

(* ReprEnum::to_tokens: each value is `Self::Variant as repr_type`.          *)
ReprEnum_to_tokens(self) ==
    Ok(regular_enum_to_tokens(parse_container(self.attributes),
            features_to_token_stream(self.enum_features),
            MapSeq(LAMBDA v : <<"Self::">> \o v.ident \o <<" as ">> \o self.enum_type,
                   Filter(variant_not_skipped, self.variants))))

(* the shape of the first variant taken for the shape of all                *)
all_variants_unit_FirstOnly(variants) ==
    Len(variants) = 0 \/ variants[1].fields.kind = "Unit"

(* lines 673-675 *)
all_variants_unit(variants) == \A i \in 1..Len(variants) : variants[i].fields.kind = "Unit"

(* pop_feature_as_inner!(features => Feature::As(_v)) and                    *)
(* pop_rename_all_feature, as done by the constructors.                      *)
pop_as_and_rename_all(features) ==
    Bind(pop_feature(features, "As"), LAMBDA as :
    Bind(pop_feature(as.rest, "RenameAll"), LAMBDA ra :
        [schema_as |-> IF IsSome(as.popped) THEN Some(Unwrap(as.popped).path) ELSE None,
         rename_all |-> IF IsSome(ra.popped) THEN Some(Unwrap(ra.popped).s[1]) ELSE None,
         features |-> ra.rest]))

(* EnumSchema::new; cfg_repr is the crate's "repr" build feature.            *)
EnumSchema_new(enum_name, variants, attributes, cfg_repr) ==
    Bind(pop_as_and_rename_all(attributes.features), LAMBDA p :
    Bind(pop_feature(attributes.features, "As"), LAMBDA as :
        IF all_variants_unit(variants)
        THEN IF cfg_repr /\ IsSome(attributes.repr)
             THEN [kind |-> "Repr", schema_as |-> p.schema_as,
                   schema |-> [variants |-> variants, attributes |-> attributes,
                               enum_type |-> Unwrap(attributes.repr),
                               enum_features |-> as.rest]]
             ELSE [kind |-> "Simple", schema_as |-> p.schema_as,
                   schema |-> [variants |-> variants, attributes |-> attributes,
                               enum_features |-> p.features, rename_all |-> p.rename_all]]
        ELSE [kind |-> "Complex", schema_as |-> p.schema_as,
              schema |-> [variants |-> variants, attributes |-> attributes,
                          enum_name |-> enum_name,
                          enum_features |-> p.features, rename_all |-> p.rename_all]]))

(* EnumSchemaType::to_tokens (through EnumSchema::to_tokens)                 *)
enum_schema_tail(attributes, inner) ==
    IF ~inner.ok THEN inner
    ELSE Ok(Extend(inner.val,
            (IF IsSome(get_deprecated(attributes))
             THEN <<Call("deprecated", <<>>, <<>>)>> ELSE <<>>)
            \o (IF as_formatted_string(attributes) # <<>>
                THEN <<Call("description", as_formatted_string(attributes), <<>>)>>
                ELSE <<>>)))
EnumSchema_to_tokens(enum) ==
    enum_schema_tail(enum.schema.attributes,
        IF enum.kind = "Simple" THEN SimpleEnum_to_tokens(enum.schema)
        ELSE IF enum.kind = "Repr" THEN ReprEnum_to_tokens(enum.schema)
        ELSE ComplexEnum_to_tokens(enum.schema))

----------------------------------------------------------------------------
(* Schema, SchemaVariant, AliasSchema                                        *)

(* SchemaVariant::new *)
SchemaVariant_new(data, attributes, ident, generics, alias_pairs, cfg_repr) ==
    IF data.kind = "Struct" THEN
        IF data.fields.kind = "Unnamed" THEN
            Bind(pop_feature(attributes.features, "As"), LAMBDA as :
                Ok([kind |-> "Unnamed",
                    schema_as |-> IF IsSome(as.popped) THEN Some(Unwrap(as.popped).path) ELSE None,
                    schema |-> [struct_name |-> ident,
                                attributes |-> attributes,
                                features |-> as.rest,
                                fields |-> data.fields.list]]))
        ELSE IF data.fields.kind = "Named" THEN
            Bind(pop_as_and_rename_all(attributes.features), LAMBDA p :
                Ok([kind |-> "Named",
                    schema_as |-> p.schema_as,
                    schema |-> [struct_name |-> ident,
                                attributes |-> attributes,
                                rename_all |-> p.rename_all,
                                features |-> p.features,
                                fields |-> data.fields.list,
                                aliases |-> alias_pairs]]))
        ELSE Ok([kind |-> "Unit", schema_as |-> None, schema |-> <<>>])
    ELSE IF data.kind = "Enum" THEN
        Bind(EnumSchema_new(ident, data.variants, attributes, cfg_repr), LAMBDA enum :
            Ok([kind |-> "Enum", schema_as |-> enum.schema_as, schema |-> enum]))
    ELSE Err(Diagnostics("unexpected data type", <<ident>>))

(* SchemaVariant::get_schema_as *)
get_schema_as(v) ==
    IF v.kind \in {"Enum", "Named", "Unnamed"} THEN v.schema_as ELSE None

(* SchemaVariant::to_tokens, into an empty token stream *)
SchemaVariant_to_tokens(v) ==
    IF v.kind = "Enum" THEN EnumSchema_to_tokens(v.schema)
    ELSE IF v.kind = "Named" THEN NamedStructSchema_to_tokens(v.schema)
    ELSE IF v.kind = "Unnamed" THEN UnnamedStructSchema_to_tokens(v.schema)
    ELSE Ok(Node("empty", <<>>))

(* A syn::Path is [leading_colon, segments]; a segment is [ident, arguments] *)
(* with arguments the list of its angle-bracketed generic arguments.         *)
(* Path::to_token_stream(): the tokens of the path.                          *)
RECURSIVE comma_separated(_)
comma_separated(args) ==
    IF args = <<>> THEN <<>>
    ELSE IF Len(args) = 1 THEN <<args[1]>>
    ELSE <<args[1], ",">> \o comma_separated(Tail(args))

segment_tokens(segment) ==
    <<segment.ident>>
    \o (IF segment.arguments = <<>> THEN <<>>
        ELSE <<"<">> \o comma_separated(segment.arguments) \o <<">">>)

RECURSIVE segments_tokens(_)
segments_tokens(segments) ==
    IF segments = <<>> THEN <<>>
    ELSE IF Len(segments) = 1 THEN segment_tokens(segments[1])
    ELSE segment_tokens(segments[1]) \o <<"::">> \o segments_tokens(Tail(segments))

path_to_token_stream(path) ==
    (IF path.leading_colon THEN <<"::">> ELSE <<>>) \o segments_tokens(path.segments)

(* TokenStream::to_string(): the tokens separated by single spaces.          *)
RECURSIVE tokens_to_string(_)
tokens_to_string(toks) ==
    IF toks = <<>> THEN <<>>
    ELSE IF Len(toks) = 1 THEN <<toks[1]>>
    ELSE <<toks[1], " ">> \o tokens_to_string(Tail(toks))

(* str::replace(" :: ", "."), left to right without overlap.                 *)
RECURSIVE replace_colons(_)
replace_colons(str) ==
    IF Len(str) >= 3 /\ str[1] = " " /\ str[2] = "::" /\ str[3] = " "
    THEN <<".">> \o replace_colons(SubSeq(str, 4, Len(str)))
    ELSE IF str = <<>> THEN <<>>
    ELSE <<str[1]>> \o replace_colons(Tail(str))

(* the last segment alone, without its generic arguments                    *)
format_path_ref_LastSegment(path) ==
    IF Len(path.segments) > 0 THEN <<path.segments[Len(path.segments)].ident>> ELSE <<>>

(* format_path_ref *)
format_path_ref(path) ==
    replace_colons(tokens_to_string(path_to_token_stream(
        IF Len(path.segments) > 0
        THEN [path EXCEPT !.segments[Len(path.segments)].arguments = <<>>]
        ELSE path)))

(* A syn::Type of an alias is [kind, name, args]: kind "Path" for a type     *)
(* path, another kind for a reference, tuple, ... ; args are the generic     *)
(* arguments, themselves types or lifetimes (kind "Lifetime", name the       *)
(* lifetime's ident, which syn keeps without the apostrophe).                *)
IsKeptLifetime(generic_arg) ==
    generic_arg.kind = "Lifetime" /\ generic_arg.name # "'static"

(* AliasSchema::get_lifetimes / lifetimes_from_type.  The flat_map over the  *)
(* Result of a nested type yields its Vec when Ok and nothing when Err.      *)
RECURSIVE lifetimes_from_type(_)
RECURSIVE lifetimes_of_args(_, _)
lifetimes_from_type(ty) ==
    IF ty.kind = "Path"
    THEN Ok(lifetimes_of_args(ty.args, 1))
    ELSE Err(Diagnostics("get_lifetimes only supports syn::TypePath types", <<ty.name>>))
lifetimes_of_args(args, i) ==
    IF i > Len(args) THEN <<>>
    ELSE Filter(IsKeptLifetime,
                IF args[i].kind = "Lifetime" THEN <<args[i]>>
                ELSE Bind(lifetimes_from_type(args[i]),
                          LAMBDA r : IF r.ok THEN r.val ELSE <<>>))
         \o lifetimes_of_args(args, i + 1)

get_lifetimes(alias) == lifetimes_from_type(alias.ty)

(* TypeTree::from_type: the tree of a type; lifetimes are no children.       *)
IsTypeArg(generic_arg) == generic_arg.kind # "Lifetime"
RECURSIVE TypeTree_from_type(_)
TypeTree_from_type(ty) ==
    Ty(ty.name, MapSeq(TypeTree_from_type, Filter(IsTypeArg, ty.args)))

(* lines 93-96: the children of `#ident #ty_generics`.                       *)
schema_children(generics) == [i \in 1..Len(generics) |-> Ty(generics[i], <<>>)]

(* lines 110-112: children.into_iter().zip(schema_children)                  *)
zip(children, old) ==
    [i \in 1..(IF Len(children) < Len(old) THEN Len(children) ELSE Len(old)) |->
        [new |-> children[i], old |-> old[i]]]
alias_pairs_of(alias, generics) ==
    Bind(TypeTree_from_type(alias.ty).args, LAMBDA children :
        IF children = <<>> THEN None
        ELSE Some(zip(children, schema_children(generics))))

(* Schema::new: the aliases attribute is read only for a type with type      *)
(* parameters.                                                               *)
Schema_new(data, attributes, ident, generics, cfg_repr) ==
    [data |-> data,
     ident |-> ident,
     attributes |-> attributes,
     generics |-> generics,
     aliases |-> IF Len(generics) > 0 THEN attributes.aliases ELSE None,
     cfg_repr |-> cfg_repr]

(* lines 101-121: the (name, schema) pair of one alias.                      *)
alias_schema(self, alias) ==
    Bind(SchemaVariant_new(self.data, self.attributes, self.ident, self.generics,
                           alias_pairs_of(alias, self.generics), self.cfg_repr), LAMBDA v :
        IF ~v.ok THEN v
        ELSE Bind(SchemaVariant_to_tokens(v.val), LAMBDA alias_tokens :
                IF ~alias_tokens.ok THEN alias_tokens
                ELSE Ok([name |-> alias.name, tokens |-> alias_tokens.val])))

(* lines 99-122: collect::<Result<Array<TokenStream>, Diagnostics>>()        *)
RECURSIVE alias_schemas(_, _, _, _)
alias_schemas(self, alias_list, i, acc) ==
    IF i > Len(alias_list) THEN Ok(acc)
    ELSE Bind(alias_schema(self, alias_list[i]), LAMBDA r :
            IF ~r.ok THEN r
            ELSE alias_schemas(self, alias_list, i + 1, Append(acc, r.val)))

(* lines 134-149: `#vis type #name < #name_generics > = #ty;`                *)
type_alias(alias) ==
    Bind(get_lifetimes(alias), LAMBDA lifetimes :
        IF ~lifetimes.ok THEN lifetimes
        ELSE Ok([name |-> alias.name, name_generics |-> lifetimes.val, ty |-> alias.ty]))

(* lines 132-150: collect::<Result<TokenStream, Diagnostics>>()              *)
RECURSIVE collect_type_aliases(_, _, _)
collect_type_aliases(alias_list, i, acc) ==
    IF i > Len(alias_list) THEN Ok(acc)
    ELSE Bind(type_alias(alias_list[i]), LAMBDA r :
            IF ~r.ok THEN r
            ELSE collect_type_aliases(alias_list, i + 1, Append(acc, r.val)))

(* lines 153-157 *)
resolve_name(v, ident) ==
    IF IsSome(get_schema_as(v)) THEN format_path_ref(Unwrap(get_schema_as(v)))
    ELSE ident

----------------------------------------------------------------------------
(* Schema::to_tokens, step by step.                                          *)

Locals == <<variant, variant_tokens, aliases, type_aliases, name>>

(* a `?` that returns early, or a panic that unwinds                         *)
Fail(r) ==
    /\ pc' = IF IsPanic(r) THEN "panicked" ELSE "error"
    /\ diagnostics' = Some(r.err)

(* a fallible step: the local is assigned and control moves on, or the       *)
(* function returns the error                                                *)
NewVariantStep(r) ==
    IF r.ok
    THEN /\ variant' = Some(r.val)
         /\ pc' = "aliases"
         /\ UNCHANGED diagnostics
    ELSE /\ Fail(r)
         /\ UNCHANGED variant

(* lines 81-87 *)
NewVariant ==
    /\ pc = "start"
    /\ NewVariantStep(SchemaVariant_new(schema.data, schema.attributes, schema.ident,
                                        schema.generics, None, schema.cfg_repr))
    /\ UNCHANGED <<schema, tokens, variant_tokens, aliases, type_aliases, name>>

BuildAliasesStep(r) ==
    IF r.ok
    THEN /\ aliases' = IF IsSome(schema.aliases) THEN Some(r.val) ELSE None
         /\ pc' = "type_aliases"
         /\ UNCHANGED diagnostics
    ELSE /\ Fail(r)
         /\ UNCHANGED aliases

(* lines 98-129 *)
BuildAliases ==
    /\ pc = "aliases"
    /\ BuildAliasesStep(IF IsSome(schema.aliases)
                        THEN alias_schemas(schema, Unwrap(schema.aliases), 1, <<>>)
                        ELSE Ok(<<>>))
    /\ UNCHANGED <<schema, tokens, variant, variant_tokens, type_aliases, name>>

BuildTypeAliasesStep(r) ==
    IF r.ok
    THEN /\ type_aliases' = IF IsSome(schema.aliases) THEN Some(r.val) ELSE None
         /\ pc' = "name"
         /\ UNCHANGED diagnostics
    ELSE /\ Fail(r)
         /\ UNCHANGED type_aliases

(* lines 131-151 *)
BuildTypeAliases ==
    /\ pc = "type_aliases"
    /\ BuildTypeAliasesStep(IF IsSome(schema.aliases)
                            THEN collect_type_aliases(Unwrap(schema.aliases), 1, <<>>)
                            ELSE Ok(<<>>))
    /\ UNCHANGED <<schema, tokens, variant, variant_tokens, aliases, name>>

(* lines 153-157 *)
ResolveName ==
    /\ pc = "name"
    /\ name' = Some(resolve_name(Unwrap(variant), schema.ident))
    /\ pc' = "variant_tokens"
    /\ UNCHANGED <<schema, tokens, variant, variant_tokens, aliases, type_aliases, diagnostics>>

VariantToTokensStep(r) ==
    IF r.ok
    THEN /\ variant_tokens' = Some(r.val)
         /\ pc' = "extend"
         /\ UNCHANGED diagnostics
    ELSE /\ Fail(r)
         /\ UNCHANGED variant_tokens

(* the variant written straight into the caller's stream: what it wrote      *)
(* before failing stays there                                                *)
VariantToTokens_IntoCallerStream ==
    /\ pc = "variant_tokens"
    /\ VariantToTokensStep(SchemaVariant_to_tokens(Unwrap(variant)))
    /\ tokens' = Append(tokens,
                    [name |-> Unwrap(name),
                     schema |-> Node("ObjectBuilder", <<>>),
                     aliases |-> None,
                     type_aliases |-> None])
    /\ UNCHANGED <<schema, variant, aliases, type_aliases, name>>

(* lines 169-170 *)
VariantToTokens ==
    /\ pc = "variant_tokens"
    /\ VariantToTokensStep(SchemaVariant_to_tokens(Unwrap(variant)))
    /\ UNCHANGED <<schema, tokens, variant, aliases, type_aliases, name>>

(* lines 172-183 *)
ExtendTokens ==
    /\ pc = "extend"
    /\ tokens' = Append(tokens,
                    [name |-> Unwrap(name),
                     schema |-> Unwrap(variant_tokens),
                     aliases |-> aliases,
                     type_aliases |-> type_aliases])
    /\ pc' = "done"
    /\ UNCHANGED <<schema, variant, variant_tokens, aliases, type_aliases, name, diagnostics>>

Next ==
    \/ NewVariant
    \/ BuildAliases
    \/ BuildTypeAliases
    \/ ResolveName
    \/ VariantToTokens
    \/ ExtendTokens

----------------------------------------------------------------------------
(* Declarations the derive is applied to.                                    *)

SerdeValue(skip, flatten, default, renamed) ==
    [skip |-> skip, flatten |-> flatten, default |-> default, rename |-> renamed]
PlainRules == SerdeValue(FALSE, FALSE, FALSE, None)

NoRepr == [kind |-> "ExternallyTagged", tag |-> <<>>, content |-> <<>>]
SerdeContainer(rename_all, default, deny_unknown_fields, enum_repr) ==
    [rename_all |-> rename_all, default |-> default,
     deny_unknown_fields |-> deny_unknown_fields, enum_repr |-> enum_repr]
PlainContainer == SerdeContainer(None, FALSE, FALSE, NoRepr)

(* The attributes of a field or a variant: what serde::parse_value and       *)
(* serde::parse_container read from them, the schema features, #[deprecated] *)
(* and the doc comment.                                                      *)
ItemAttrs(serde, features, deprecated, doc) ==
    [serde |-> serde, container |-> PlainContainer, features |-> features,
     deprecated |-> deprecated, doc |-> doc]

MkField(ident, ty, serde, features) ==
    [ident |-> ident, ty |-> ty, attrs |-> ItemAttrs(serde, features, FALSE, <<>>)]

(* The attributes of the derive's input.                                     *)
ContainerAttrs(container, features, deprecated, doc) ==
    [serde |-> PlainRules, container |-> container, features |-> features,
     deprecated |-> deprecated, doc |-> doc, repr |-> None, aliases |-> None]

NamedFields(list) == [kind |-> "Named", list |-> list]
UnnamedFields(list) == [kind |-> "Unnamed", list |-> list]
UnitFields == [kind |-> "Unit", list |-> <<>>]
StructData(fields) == [kind |-> "Struct", fields |-> fields, variants |-> <<>>]
EnumData(variants) == [kind |-> "Enum", fields |-> UnitFields, variants |-> variants]
UnionData == [kind |-> "Union", fields |-> UnitFields, variants |-> <<>>]

TString == Ty("String", <<>>)
TOptString == Ty("Option", <<TString>>)
TMap == Ty("HashMap", <<TString, TString>>)
TBTreeMap == Ty("BTreeMap", <<TString, TString>>)
TFoo == Ty("Foo", <<>>)

(* field identifiers by declaration position: a struct's are distinct        *)
FieldIdents == << <<"a">>, <<"b">>, <<"t">>, <<"c">>, <<"d">>, <<"e">> >>
FieldIdent(i) == FieldIdents[i]
TypeIdent == <<"F", "o", "o">>

RECURSIVE SeqsOfLen(_, _)
SeqsOfLen(Choice(_), n) ==
    IF n = 0 THEN {<<>>}
    ELSE {Append(sq, x) : sq \in SeqsOfLen(Choice, n - 1), x \in Choice(n)}
SeqsUpTo(Choice(_), n) == UNION {SeqsOfLen(Choice, k) : k \in 0..n}

InitWith(schemas, prior) ==
    /\ schema \in schemas
    /\ tokens \in prior
    /\ pc = "start"
    /\ variant = None
    /\ variant_tokens = None
    /\ aliases = None
    /\ type_aliases = None
    /\ name = None
    /\ diagnostics = None

(* the named-field struct emitted by a finished run                          *)
Done == pc = "done"
Emitted == tokens[Len(tokens)].schema

----------------------------------------------------------------------------
(* The derive's inputs at large: every shape of type, with and without an    *)
(* `as` path, generic types with their aliases, and the inputs each step of  *)
(* Schema::to_tokens fails on.                                               *)
MaxSegments == 2
MaxAliases == 2

PathIdents == <<"a", "B", "C", "D">>
SegmentChoices(i) ==
    {[ident |-> PathIdents[i], arguments |-> args] : args \in {<<>>, <<"T">>}}
AsPaths(max_segments) ==
    {[leading_colon |-> lc, segments |-> sg] :
        lc \in BOOLEAN,
        sg \in SeqsUpTo(SegmentChoices, max_segments) \ {<<>>}}

PathTy(n, args) == [kind |-> "Path", name |-> n, args |-> args]
LifetimeArg(n) == [kind |-> "Lifetime", name |-> n, args |-> <<>>]
ReferenceTy(n) == [kind |-> "Reference", name |-> n, args |-> <<>>]

AliasNames == << <<"X">>, <<"Y">>, <<"Z">> >>
AliasChoices(i) ==
    {[name |-> AliasNames[i], ty |-> ty] :
        ty \in {PathTy("Foo", <<PathTy("String", <<>>)>>),
                PathTy("Foo", <<PathTy("HashMap", <<PathTy("String", <<>>),
                                                    PathTy("String", <<>>)>>)>>),
                PathTy("Foo", <<LifetimeArg("a"), PathTy("String", <<>>)>>),
                ReferenceTy("Foo")}}

TParam == Ty("T", <<>>)
PlainAttrs == ContainerAttrs(PlainContainer, <<>>, FALSE, <<>>)
WithAs(path) == ContainerAttrs(PlainContainer, <<AsFeature(path)>>, FALSE, <<>>)
WithAliases(attributes, alias_list) == [attributes EXCEPT !.aliases = Some(alias_list)]
Flattened == SerdeValue(FALSE, TRUE, FALSE, None)
Tagged == [kind |-> "InternallyTagged", tag |-> <<"k">>, content |-> <<>>]

(* one type of each shape *)
ShapeData ==
    {StructData(NamedFields(<<MkField(FieldIdent(1), TString, PlainRules, <<>>)>>)),
     StructData(UnnamedFields(<<MkField(<<>>, TString, PlainRules, <<>>)>>)),
     StructData(UnitFields),
     EnumData(<<[ident |-> <<"A">>, fields |-> UnitFields,
                 attrs |-> ItemAttrs(PlainRules, <<>>, FALSE, <<>>)]>>),
     EnumData(<<[ident |-> <<"A">>,
                 fields |-> NamedFields(<<MkField(FieldIdent(1), TString, PlainRules, <<>>)>>),
                 attrs |-> ItemAttrs(PlainRules, <<>>, FALSE, <<>>)]>>)}

(* generic types, for the aliases *)
GenericData ==
    {StructData(NamedFields(<<MkField(FieldIdent(1), TParam, Flattened, <<>>),
                              MkField(FieldIdent(2), TParam, Flattened, <<>>)>>)),
     StructData(NamedFields(<<MkField(FieldIdent(1), TParam, PlainRules, <<>>)>>)),
     StructData(UnnamedFields(<<MkField(<<>>, TParam, PlainRules, <<>>)>>))}

(* inputs the synthesis of the primary schema fails on *)
FailingSchemas ==
    {Schema_new(UnionData, PlainAttrs, TypeIdent, <<>>, FALSE),
     Schema_new(StructData(NamedFields(<<MkField(FieldIdent(1), TMap, Flattened, <<>>),
                                         MkField(FieldIdent(2), TMap, Flattened, <<>>)>>)),
                PlainAttrs, TypeIdent, <<>>, FALSE),
     Schema_new(EnumData(<<[ident |-> <<"A">>,
                            fields |-> UnnamedFields(<<MkField(<<>>, TString, PlainRules, <<>>),
                                                       MkField(<<>>, TString, PlainRules, <<>>)>>),
                            attrs |-> ItemAttrs(PlainRules, <<>>, FALSE, <<>>)]>>),
                ContainerAttrs(SerdeContainer(None, FALSE, FALSE, Tagged), <<>>, FALSE, <<>>),
                TypeIdent, <<>>, FALSE),
     Schema_new(StructData(UnnamedFields(<<>>)), PlainAttrs, TypeIdent, <<>>, FALSE)}

Schemas(max_segments, max_aliases) ==
    {Schema_new(data, at, TypeIdent, <<>>, FALSE) :
        data \in ShapeData, at \in {PlainAttrs} \cup {WithAs(path) : path \in AsPaths(max_segments)}}
    \cup {Schema_new(data, WithAliases(at, alias_list), TypeIdent, <<"T">>, FALSE) :
            data \in GenericData,
            at \in {PlainAttrs, WithAs([leading_colon |-> FALSE,
                                         segments |-> <<[ident |-> "a", arguments |-> <<>>],
                                                        [ident |-> "B", arguments |-> <<>>]>>])},
            alias_list \in SeqsUpTo(AliasChoices, max_aliases)}
    \cup FailingSchemas

(* what the caller's stream holds before the call *)
PriorTokens ==
    {<<>>,
     <<[name |-> <<"P">>, schema |-> Node("ObjectBuilder", <<>>),
        aliases |-> None, type_aliases |-> None]>>}

Spec == InitWith(Schemas(MaxSegments, MaxAliases), PriorTokens) /\ [][Next]_vars

----------------------------------------------------------------------------
(* Named-field structs varying what decides required-ness.                   *)
MaxRequiredFields == 2

RequiredFieldChoices(i) ==
    {MkField(FieldIdent(i), tv[1], SerdeValue(FALSE, FALSE, d, None), req \o tv[2]) :
        tv \in {<<TString, <<>>>>, <<TOptString, <<>>>>,
                <<TString, <<ValueTypeFeature(TOptString)>>>>,
                <<TOptString, <<ValueTypeFeature(TString)>>>>},
        d \in BOOLEAN,
        req \in {<<>>, <<RequiredFeature(TRUE)>>, <<RequiredFeature(FALSE)>>}}
    \cup {MkField(FieldIdent(i), TString, SerdeValue(sf[1], sf[2], FALSE, None), req) :
        sf \in {<<TRUE, FALSE>>, <<FALSE, TRUE>>},
        req \in {<<>>, <<RequiredFeature(TRUE)>>}}

RequiredContainers ==
    {ContainerAttrs(SerdeContainer(None, d, FALSE, NoRepr), sd, FALSE, <<>>) :
        d \in BOOLEAN,
        sd \in {<<>>, <<Feature("Default", <<>>)>>}}
    \cup {ContainerAttrs(SerdeContainer(Some("UPPERCASE"), FALSE, FALSE, NoRepr),
                         <<>>, FALSE, <<>>)}

RequiredSchemas(n) ==
    {Schema_new(StructData(NamedFields(fs)), at, TypeIdent, <<>>, FALSE) :
        fs \in SeqsUpTo(RequiredFieldChoices, n),
        at \in RequiredContainers}

SpecRequired == InitWith(RequiredSchemas(MaxRequiredFields), {<<>>}) /\ [][Next]_vars

(* Named structs for the property names: fields kept, skipped or flattened,  *)
(* renamed by serde or by the schema attribute, a raw identifier, and        *)
(* containers with rename_all from serde or from the schema attribute.       *)
MaxNamesFields == 3

RawIdent == <<"r", "#", "t">>

NamesFieldChoices(i) ==
    {MkField(id, TString, SerdeValue(kind = "skip", kind = "flatten", FALSE, ren), fs) :
        id \in (IF i = 1 THEN {FieldIdent(1), RawIdent} ELSE {FieldIdent(i)}),
        kind \in {"keep", "skip", "flatten"},
        ren \in {None, Some(<<"z">>)},
        fs \in {<<>>, <<Feature("Rename", <<"e">>)>>}}

NamesContainers ==
    {ContainerAttrs(SerdeContainer(None, FALSE, FALSE, NoRepr), <<>>, FALSE, <<>>),
     ContainerAttrs(SerdeContainer(Some("UPPERCASE"), FALSE, FALSE, NoRepr),
                    <<Feature("RenameAll", <<"lowercase">>)>>, FALSE, <<>>),
     ContainerAttrs(SerdeContainer(None, FALSE, FALSE, NoRepr),
                    <<Feature("RenameAll", <<"UPPERCASE">>)>>, FALSE, <<>>)}

NamesSchemas(n) ==
    {Schema_new(StructData(NamedFields(fs)), at, TypeIdent, <<>>, FALSE) :
        fs \in SeqsUpTo(NamesFieldChoices, n),
        at \in NamesContainers}

SpecNames == InitWith(NamesSchemas(MaxNamesFields), {<<>>}) /\ [][Next]_vars

(* Named structs for flattening: maps, a plain object type and a string,     *)
(* flattened or not, with schema_with or a value_type override, and a        *)
(* flattened field that is skipped as well.                                  *)
MaxFlattenFields == 3

FlattenFieldChoices(i) ==
    {MkField(FieldIdent(i), TString, PlainRules, <<>>),
     MkField(FieldIdent(i), TMap, PlainRules, <<>>),
     MkField(FieldIdent(i), TMap, SerdeValue(FALSE, TRUE, FALSE, None), <<>>),
     MkField(FieldIdent(i), TBTreeMap, SerdeValue(FALSE, TRUE, FALSE, None), <<>>),
     MkField(FieldIdent(i), TFoo, SerdeValue(FALSE, TRUE, FALSE, None), <<>>),
     MkField(FieldIdent(i), TMap, SerdeValue(FALSE, TRUE, FALSE, None),
             <<Feature("SchemaWith", <<"f">>)>>),
     MkField(FieldIdent(i), TMap, SerdeValue(FALSE, TRUE, FALSE, None),
             <<ValueTypeFeature(TFoo)>>),
     MkField(FieldIdent(i), TFoo, SerdeValue(FALSE, TRUE, FALSE, None),
             <<ValueTypeFeature(TMap)>>),
     MkField(FieldIdent(i), TMap, SerdeValue(TRUE, TRUE, FALSE, None), <<>>)}

FlattenContainers ==
    {ContainerAttrs(SerdeContainer(None, FALSE, deny, NoRepr), <<>>, FALSE, <<>>) :
        deny \in BOOLEAN}

FlattenSchemas(n) ==
    {Schema_new(StructData(NamedFields(fs)), at, TypeIdent, <<>>, FALSE) :
        fs \in SeqsUpTo(FlattenFieldChoices, n),
        at \in FlattenContainers}

SpecFlatten == InitWith(FlattenSchemas(MaxFlattenFields), {<<>>}) /\ [][Next]_vars

(* Enums: unit, named and positional variants, kept or skipped, renamed or   *)
(* titled, under each of serde's four representations.                       *)
MaxVariants == 2

VariantIdents == << <<"A">>, <<"B">>, <<"C">>, <<"D">> >>
VariantIdent(i) == VariantIdents[i]
MkVariant(ident, fields, serde, features) ==
    [ident |-> ident, fields |-> fields, attrs |-> ItemAttrs(serde, features, FALSE, <<>>)]

TagName == <<"k">>
ContentName == <<"c">>
EnumReprs ==
    {NoRepr,
     [kind |-> "InternallyTagged", tag |-> TagName, content |-> <<>>],
     [kind |-> "AdjacentlyTagged", tag |-> TagName, content |-> ContentName],
     [kind |-> "Untagged", tag |-> <<>>, content |-> <<>>]}

VariantChoices(i) ==
    {MkVariant(VariantIdent(i), UnitFields, PlainRules, <<>>),
     MkVariant(VariantIdent(i), UnitFields, SerdeValue(FALSE, FALSE, FALSE, Some(<<"z">>)),
               <<Feature("Title", <<"T">>)>>),
     MkVariant(VariantIdent(i), UnitFields, SerdeValue(TRUE, FALSE, FALSE, None), <<>>),
     MkVariant(VariantIdent(i),
               NamedFields(<<MkField(FieldIdent(1), TString, PlainRules, <<>>)>>),
               PlainRules, <<Feature("Rename", <<"e">>)>>),
     MkVariant(VariantIdent(i),
               NamedFields(<<MkField(FieldIdent(1), TString, PlainRules, <<>>),
                             MkField(FieldIdent(2), TOptString, PlainRules, <<>>)>>),
               PlainRules, <<Feature("Title", <<"T">>)>>),
     MkVariant(VariantIdent(i),
               NamedFields(<<MkField(FieldIdent(1), TFoo,
                                     SerdeValue(FALSE, TRUE, FALSE, None), <<>>),
                             MkField(FieldIdent(2), TString, PlainRules, <<>>)>>),
               PlainRules, <<>>),
     MkVariant(VariantIdent(i), UnnamedFields(<<MkField(<<>>, TString, PlainRules, <<>>)>>),
               PlainRules, <<>>),
     MkVariant(VariantIdent(i), UnnamedFields(<<MkField(<<>>, TFoo, PlainRules, <<>>)>>),
               PlainRules, <<>>),
     MkVariant(VariantIdent(i),
               UnnamedFields(<<MkField(<<>>, TString, PlainRules, <<>>),
                               MkField(<<>>, TString, PlainRules, <<>>)>>),
               PlainRules, <<>>),
     MkVariant(VariantIdent(i),
               UnnamedFields(<<MkField(<<>>, TString, PlainRules, <<>>),
                               MkField(<<>>, TFoo, PlainRules, <<>>)>>),
               SerdeValue(TRUE, FALSE, FALSE, None), <<>>)}

EnumContainers ==
    {ContainerAttrs(SerdeContainer(ra, FALSE, FALSE, repr), <<>>, FALSE, <<>>) :
        ra \in {None, Some("lowercase")}, repr \in EnumReprs}

EnumSchemas(n) ==
    {Schema_new(EnumData(vs), at, TypeIdent, <<>>, FALSE) :
        vs \in SeqsUpTo(VariantChoices, n),
        at \in EnumContainers}

SpecEnum == InitWith(EnumSchemas(MaxVariants), {<<>>}) /\ [][Next]_vars

(* Positional structs: up to MaxUnnamedFields fields of the same or of       *)
(* different types, with a value_type override, a bare default, a doc        *)
(* comment and #[deprecated].                                                *)
MaxUnnamedFields == 3

UnnamedFieldChoices(i) == {MkField(<<>>, ty, PlainRules, <<>>) : ty \in {TString, TFoo}}
DocComment == <<"d">>
UnnamedContainers ==
    {ContainerAttrs(PlainContainer, features, deprecated, doc) :
        features \in {<<>>, <<ValueTypeFeature(TFoo)>>, <<Feature("Default", <<>>)>>},
        deprecated \in BOOLEAN,
        doc \in {<<>>, DocComment}}
UnnamedSchemas(n) ==
    {Schema_new(StructData(UnnamedFields(fs)), at, TypeIdent, <<>>, FALSE) :
        fs \in SeqsUpTo(UnnamedFieldChoices, n),
        at \in UnnamedContainers}

SpecUnnamed == InitWith(UnnamedSchemas(MaxUnnamedFields), {<<>>}) /\ [][Next]_vars

(* Enums of unit and of data-carrying variants, with and without a          *)
(* #[repr(u8)], derived by a build with and without the crate's "repr"       *)
(* feature, under each representation.                                       *)
MaxClassVariants == 3

ClassVariantChoices(i) ==
    {MkVariant(VariantIdent(i), UnitFields, PlainRules, <<>>),
     MkVariant(VariantIdent(i), UnitFields, SerdeValue(FALSE, FALSE, FALSE, Some(<<"z">>)), <<>>),
     MkVariant(VariantIdent(i), UnitFields, SerdeValue(TRUE, FALSE, FALSE, None), <<>>),
     MkVariant(VariantIdent(i),
               NamedFields(<<MkField(FieldIdent(1), TString, PlainRules, <<>>)>>),
               PlainRules, <<>>),
     MkVariant(VariantIdent(i), UnnamedFields(<<MkField(<<>>, TString, PlainRules, <<>>)>>),
               SerdeValue(TRUE, FALSE, FALSE, None), <<>>)}
ReprU8 == <<"u8">>
WithRepr(attributes, repr) == [attributes EXCEPT !.repr = repr]
ClassContainers ==
    {WithRepr(ContainerAttrs(SerdeContainer(None, FALSE, FALSE, enum_repr), <<>>, FALSE, <<>>),
              repr) :
        enum_repr \in EnumReprs, repr \in {None, Some(ReprU8)}}
ClassSchemas(n) ==
    {Schema_new(EnumData(vs), at, TypeIdent, <<>>, cfg_repr) :
        vs \in SeqsUpTo(ClassVariantChoices, n),
        at \in ClassContainers,
        cfg_repr \in BOOLEAN}

SpecClass == InitWith(ClassSchemas(MaxClassVariants), {<<>>}) /\ [][Next]_vars

(* Named structs and externally tagged enums whose fields and variants are   *)
(* renamed by serde, by the schema attribute, by a rename_all of either, or   *)
(* not at all, the first of them also under a raw identifier.                *)
MaxRenameItems == 2

RenameVariantChoices(i) ==
    {MkVariant(id, fields, SerdeValue(skip, FALSE, FALSE, ren), fs) :
        id \in (IF i = 1 THEN {VariantIdent(1), RawIdent} ELSE {VariantIdent(i)}),
        fields \in {UnitFields,
                    NamedFields(<<MkField(FieldIdent(1), TString, PlainRules, <<>>)>>)},
        skip \in BOOLEAN,
        ren \in {None, Some(<<"z">>)},
        fs \in {<<>>, <<Feature("Rename", <<"e">>)>>}}

RenameSchemas(n) ==
    {Schema_new(StructData(NamedFields(fs)), at, TypeIdent, <<>>, FALSE) :
        fs \in SeqsUpTo(NamesFieldChoices, n),
        at \in NamesContainers}
    \cup
    {Schema_new(EnumData(vs), at, TypeIdent, <<>>, FALSE) :
        vs \in SeqsUpTo(RenameVariantChoices, n),
        at \in NamesContainers}

SpecRename == InitWith(RenameSchemas(MaxRenameItems), {<<>>}) /\ [][Next]_vars

(* Every shape of type, named, positional and unit structs and enums, with   *)
(* and without a doc comment and #[deprecated] on the declaration; the       *)
(* fields of the named structs with and without #[deprecated] and            *)
(* #[schema(deprecated)].                                                    *)
MaxShapeFields == 2

Deprecate(item, deprecated) == [item EXCEPT !.attrs.deprecated = deprecated]
ShapeFieldChoices(i) ==
    {Deprecate(MkField(FieldIdent(i), ty_rules[1], ty_rules[2], fs), deprecated) :
        ty_rules \in {<<TString, PlainRules>>, <<TFoo, Flattened>>},
        fs \in {<<>>, <<Feature("Deprecated", <<>>)>>},
        deprecated \in BOOLEAN}
ShapeVariantChoices(i) ==
    {MkVariant(VariantIdent(i), UnitFields, PlainRules, <<>>),
     MkVariant(VariantIdent(i),
               NamedFields(<<MkField(FieldIdent(1), TString, PlainRules, <<>>)>>),
               PlainRules, <<>>)}
ShapeContainers ==
    {ContainerAttrs(PlainContainer, <<>>, deprecated, doc) :
        deprecated \in BOOLEAN, doc \in {<<>>, DocComment}}
ShapesData(n) ==
    {StructData(NamedFields(fs)) : fs \in SeqsUpTo(ShapeFieldChoices, n)}
    \cup {StructData(UnnamedFields(fs)) : fs \in SeqsUpTo(UnnamedFieldChoices, n + 1)}
    \cup {StructData(UnitFields)}
    \cup {EnumData(vs) : vs \in SeqsUpTo(ShapeVariantChoices, n)}
ShapeSchemas(n) ==
    {Schema_new(data, at, TypeIdent, <<>>, FALSE) : data \in ShapesData(n), at \in ShapeContainers}

SpecShapes == InitWith(ShapeSchemas(MaxShapeFields), {<<>>}) /\ [][Next]_vars

(* Generic structs and enums under up to MaxAliases alias bindings; the      *)
(* type parameter occurs once in a field's type.                             *)
GenericEnumData ==
    {EnumData(<<MkVariant(VariantIdent(1),
                          NamedFields(<<MkField(FieldIdent(1), TParam, PlainRules, <<>>)>>),
                          PlainRules, <<>>),
                MkVariant(VariantIdent(2), UnitFields, PlainRules, <<>>)>>),
     EnumData(<<MkVariant(VariantIdent(1),
                          UnnamedFields(<<MkField(<<>>, Ty("Option", <<TParam>>),
                                                  PlainRules, <<>>)>>),
                          PlainRules, <<>>)>>)}
AliasedSchemas(max_aliases) ==
    {Schema_new(data, WithAliases(PlainAttrs, alias_list), TypeIdent, <<"T">>, FALSE) :
        data \in GenericData \cup GenericEnumData,
        alias_list \in SeqsUpTo(AliasChoices, max_aliases)}

SpecAliases == InitWith(AliasedSchemas(MaxAliases), {<<>>}) /\ [][Next]_vars

(* Named structs of two type parameters T and U whose field types hold a     *)
(* parameter once or twice, under bindings whose arguments are concrete      *)
(* types or types named as the other parameter.                             *)
MaxSubstFields == 2

UParam == Ty("U", <<>>)
SubstFieldChoices(i) ==
    {MkField(FieldIdent(i), ty, PlainRules, <<>>) :
        ty \in {TParam, UParam, Ty("HashMap", <<TParam, TParam>>),
                Ty("HashMap", <<TParam, UParam>>)}}
SubstAliasChoices(i) ==
    {[name |-> AliasNames[i], ty |-> PathTy("Foo", <<first, second>>)] :
        first \in {PathTy("String", <<>>), PathTy("U", <<>>)},
        second \in {PathTy("String", <<>>), PathTy("T", <<>>)}}
SubstSchemas(n, max_aliases) ==
    {Schema_new(StructData(NamedFields(fs)), WithAliases(PlainAttrs, alias_list),
                TypeIdent, <<"T", "U">>, FALSE) :
        fs \in SeqsUpTo(SubstFieldChoices, n),
        alias_list \in SeqsUpTo(SubstAliasChoices, max_aliases)}

SpecSubst == InitWith(SubstSchemas(MaxSubstFields, MaxAliases), {<<>>}) /\ [][Next]_vars

(* Generic types under bindings whose target types hold lifetimes: none,    *)
(* a named one, 'static, one nested in an argument's own arguments, one of   *)
(* a reference given as argument, and a target that is itself a reference.   *)
StaticLifetime == LifetimeArg("static")
ReferenceWith(n, lifetime) == [kind |-> "Reference", name |-> n, args |-> <<lifetime>>]
LifetimeAliasChoices(i) ==
    {[name |-> AliasNames[i], ty |-> ty] :
        ty \in {PathTy("Foo", <<PathTy("String", <<>>)>>),
                PathTy("Foo", <<LifetimeArg("a"), PathTy("String", <<>>)>>),
                PathTy("Foo", <<StaticLifetime, PathTy("String", <<>>)>>),
                PathTy("Foo", <<PathTy("Bar", <<LifetimeArg("b")>>)>>),
                PathTy("Foo", <<ReferenceWith("str", LifetimeArg("a"))>>),
                ReferenceTy("Foo")}}
LifetimeSchemas(max_aliases) ==
    {Schema_new(data, WithAliases(PlainAttrs, alias_list), TypeIdent, <<"T">>, FALSE) :
        data \in GenericData \cup GenericEnumData,
        alias_list \in SeqsUpTo(LifetimeAliasChoices, max_aliases)}

SpecLifetimes == InitWith(LifetimeSchemas(MaxAliases), {<<>>}) /\ [][Next]_vars

(* Named structs defaulted by serde, by the schema attribute, by both or by  *)
(* neither, whose fields have a default of their own or none.                *)
MaxDefaultFields == 2

OwnDefault == Feature("Default", <<"own">>)
DefaultFieldChoices(i) ==
    {MkField(id, ty, PlainRules, fs) :
        id \in (IF i = 1 THEN {FieldIdent(1), RawIdent} ELSE {FieldIdent(i)}),
        ty \in {TString, TOptString},
        fs \in {<<>>, <<OwnDefault>>, <<RequiredFeature(TRUE)>>,
                <<RequiredFeature(TRUE), OwnDefault>>}}
DefaultContainers ==
    {ContainerAttrs(SerdeContainer(None, d, FALSE, NoRepr), sd, FALSE, <<>>) :
        d \in BOOLEAN,
        sd \in {<<>>, <<Feature("Default", <<>>)>>}}
DefaultSchemas(n) ==
    {Schema_new(StructData(NamedFields(fs)), at, TypeIdent, <<>>, FALSE) :
        fs \in SeqsUpTo(DefaultFieldChoices, n),
        at \in DefaultContainers}

SpecDefault == InitWith(DefaultSchemas(MaxDefaultFields), {<<>>}) /\ [][Next]_vars

(* Positional structs, and enums of one positional variant under each        *)
(* representation, of no field up to MaxUnnamedFields fields.                *)
AritySchemas(n) ==
    UnnamedSchemas(n)
    \cup {Schema_new(EnumData(<<MkVariant(VariantIdent(1), UnnamedFields(fs),
                                          PlainRules, <<>>)>>),
                     ContainerAttrs(SerdeContainer(None, FALSE, FALSE, enum_repr),
                                    <<>>, FALSE, <<>>),
                     TypeIdent, <<>>, FALSE) :
            fs \in SeqsUpTo(UnnamedFieldChoices, n), enum_repr \in EnumReprs}

SpecArity == InitWith(AritySchemas(MaxUnnamedFields), {<<>>}) /\ [][Next]_vars

----------------------------------------------------------------------------
(* Reading a declaration and the tokens emitted for it.                      *)

DeclFields == schema.data.fields.list
DeclRules(i) == DeclFields[i].attrs.serde
DeclContainerRules == schema.attributes.container

IsPropertyDecl(field) == ~field.attrs.serde.skip /\ ~field.attrs.serde.flatten
(* the declared fields that are neither skipped nor flattened, in order      *)
PropertyDecls == Filter(IsPropertyDecl, DeclFields)

(* the type the field's schema is resolved from: the value_type override     *)
(* when the field has one, else its declared type                            *)
ResolvedType(field) ==
    IF HasFeature(field.attrs.features, "ValueType")
    THEN field.attrs.features[FirstFeature(field.attrs.features, "ValueType")].ty
    ELSE field.ty
TypeIsOptional(field) == ResolvedType(field).name = "Option"
(* the serde rules mark the field or its container `default`                 *)
Defaulted(field) == field.attrs.serde.default \/ DeclContainerRules.default
RequiredOverrideIsTrue(field) ==
    \E i \in 1..Len(field.attrs.features) :
        field.attrs.features[i].f = "Required" /\ field.attrs.features[i].b

(* the main object of a named struct's tokens: the node itself, or the last  *)
(* item of the AllOf                                                         *)
MainObject(node) ==
    IF node.base = "AllOfBuilder"
    THEN LET last == CHOOSE i \in 1..Len(node.calls) :
                        /\ node.calls[i].m = "item"
                        /\ \A j \in (i + 1)..Len(node.calls) : node.calls[j].m # "item"
         IN  node.calls[last].arg[1]
    ELSE node

IsPropertyCall(c) == c.m = "property"
IsRequiredCall(c) == c.m = "required"
CallName(c) == c.k
PropertyNames(node) == MapSeq(CallName, Filter(IsPropertyCall, node.calls))
RequiredNames(node) == MapSeq(CallName, Filter(IsRequiredCall, node.calls))
Range(sq) == {sq[i] : i \in 1..Len(sq)}

(* index in node.calls of the k-th .property call                            *)
PropertyCallAt(node, k) == SelectIdx(IsPropertyCall, node.calls, 1)[k]
(* the k-th property is followed by .required of the same name               *)
RequiredFollows(node, k) ==
    LET j == PropertyCallAt(node, k)
    IN  /\ j < Len(node.calls)
        /\ node.calls[j + 1].m = "required"
        /\ node.calls[j + 1].k = node.calls[j].k

IsNamedStruct == schema.data.kind = "Struct" /\ schema.data.fields.kind = "Named"

----------------------------------------------------------------------------
(* C1: in the object emitted for a named-field struct, each field that is    *)
(* neither skipped nor flattened has one property, and that property's name  *)
(* is put in the required set exactly when (its type is not optional and     *)
(* neither the field nor the container is defaulted by the serde rules) or   *)
(* its explicit required override is true.                                   *)
C1_RequiredIff ==
    (Done /\ IsNamedStruct) =>
        LET obj == MainObject(Emitted)
        IN  /\ Len(PropertyNames(obj)) = Len(PropertyDecls)
            /\ \A k \in 1..Len(PropertyDecls) :
                LET field == PropertyDecls[k]
                IN  /\ (PropertyNames(obj)[k] \in Range(RequiredNames(obj)))
                        <=> ((~TypeIsOptional(field) /\ ~Defaulted(field))
                             \/ RequiredOverrideIsTrue(field))
                    /\ RequiredFollows(obj, k)
                        <=> (PropertyNames(obj)[k] \in Range(RequiredNames(obj)))

(* an optional, defaulted field made required by its override, next to a     *)
(* non-optional field left out of the required set by a false override       *)
C1_Witness ==
    /\ Done /\ IsNamedStruct
    /\ Len(PropertyDecls) = 2
    /\ TypeIsOptional(PropertyDecls[1]) /\ Defaulted(PropertyDecls[1])
    /\ RequiredOverrideIsTrue(PropertyDecls[1])
    /\ RequiredFollows(MainObject(Emitted), 1)
    /\ ~TypeIsOptional(PropertyDecls[2]) /\ Defaulted(PropertyDecls[2])
    /\ ~RequiredFollows(MainObject(Emitted), 2)

----------------------------------------------------------------------------
(* the name a declared field resolves to: serde's rename, else the schema    *)
(* attribute's rename, else the container's rename_all rule (serde's, else   *)
(* the schema attribute's) applied to the identifier without r#, else that   *)
(* identifier                                                                *)
DeclIdent(field) ==
    IF Len(field.ident) >= 2 /\ SubSeq(field.ident, 1, 2) = <<"r", "#">>
    THEN SubSeq(field.ident, 3, Len(field.ident))
    ELSE field.ident
DeclRenameAll ==
    IF IsSome(DeclContainerRules.rename_all) THEN DeclContainerRules.rename_all
    ELSE IF HasFeature(schema.attributes.features, "RenameAll")
         THEN Some(schema.attributes.features[
                        FirstFeature(schema.attributes.features, "RenameAll")].s[1])
         ELSE None
ResolvedName(field) ==
    IF IsSome(field.attrs.serde.rename) THEN Unwrap(field.attrs.serde.rename)
    ELSE IF HasFeature(field.attrs.features, "Rename")
         THEN field.attrs.features[FirstFeature(field.attrs.features, "Rename")].s
         ELSE IF IsSome(DeclRenameAll)
              THEN RenameRule_rename(Unwrap(DeclRenameAll), DeclIdent(field))
              ELSE DeclIdent(field)

IsNotSkippedDecl(field) == ~field.attrs.serde.skip
NoDuplicates(sq) == \A i, j \in 1..Len(sq) : i # j => sq[i] # sq[j]

(* C2 as stated: the property names of the emitted object are the resolved   *)
(* names of the non-skipped fields, in declaration order, without a          *)
(* duplicate.                                                                *)
C2_NamesOfNonSkipped ==
    (Done /\ IsNamedStruct) =>
        /\ PropertyNames(MainObject(Emitted))
                = MapSeq(ResolvedName, Filter(IsNotSkippedDecl, DeclFields))
        /\ NoDuplicates(PropertyNames(MainObject(Emitted)))

(* C2, amended: the property names of the emitted object are the resolved    *)
(* names of the fields that are neither skipped nor flattened, one per       *)
(* field, in declaration order; a name occurs twice exactly when two such    *)
(* fields resolve to the same name.                                          *)
C2_NamesOfPropertyFields ==
    (Done /\ IsNamedStruct) =>
        /\ PropertyNames(MainObject(Emitted)) = MapSeq(ResolvedName, PropertyDecls)
        /\ NoDuplicates(PropertyNames(MainObject(Emitted)))
                <=> NoDuplicates(MapSeq(ResolvedName, PropertyDecls))

(* a raw identifier under rename_all, then a flattened field, then a field   *)
(* renamed by serde: two properties, in that order                           *)
C2_Witness ==
    /\ Done /\ IsNamedStruct
    /\ Len(DeclFields) = 3
    /\ DeclFields[1].ident = RawIdent /\ IsPropertyDecl(DeclFields[1])
    /\ IsSome(DeclRenameAll)
    /\ DeclFields[2].attrs.serde.flatten /\ ~DeclFields[2].attrs.serde.skip
    /\ IsPropertyDecl(DeclFields[3]) /\ IsSome(DeclFields[3].attrs.serde.rename)
    /\ PropertyNames(MainObject(Emitted)) = << <<"T">>, <<"z">> >>

----------------------------------------------------------------------------
(* Flattened fields of the declaration.                                      *)
IsFlattenDecl(field) == field.attrs.serde.flatten
TypeIsMap(field) == ResolvedType(field).name \in {"HashMap", "BTreeMap"}
(* flattened, of a map-like type                                             *)
IsFlattenedOfMapType(field) == IsFlattenDecl(field) /\ TypeIsMap(field)
(* flattened, and its schema is the flattened map of its resolved type: the  *)
(* resolved type is a map and no schema_with replaces the schema             *)
IsFlattenedMap(field) ==
    /\ IsFlattenedOfMapType(field)
    /\ ~HasFeature(field.attrs.features, "SchemaWith")
(* flattened, any other schema                                               *)
IsFlattenedPlain(field) == IsFlattenDecl(field) /\ ~IsFlattenedMap(field)

Returned == pc \in {"done", "error", "panicked"}
MultipleMapsError(struct, first, second) ==
    /\ pc = "error"
    /\ tokens = <<>>
    /\ diagnostics = Some(Diagnostics("multiple flattened map fields",
                                      <<struct, first.ident, second.ident>>))

(* C3 as stated: with two or more flattened fields of a map-like type the    *)
(* synthesis fails, naming the struct and the first two of them.             *)
C3_MapTypedFail ==
    (IsNamedStruct /\ pc \in {"extend", "done", "error", "panicked"}
        /\ Len(Filter(IsFlattenedOfMapType, DeclFields)) >= 2)
    => MultipleMapsError(schema.ident,
                         Filter(IsFlattenedOfMapType, DeclFields)[1],
                         Filter(IsFlattenedOfMapType, DeclFields)[2])

(* C3, amended: when two or more flattened fields have a map-like type and   *)
(* no schema_with of their own, the synthesis fails with an error, nothing   *)
(* is emitted, and the error names the struct and the first two such fields  *)
(* in declaration order.                                                     *)
C3_FlattenedMapsFail ==
    (IsNamedStruct /\ pc \in {"extend", "done", "error", "panicked"})
    => (Len(Filter(IsFlattenedMap, DeclFields)) >= 2
        => MultipleMapsError(schema.ident,
                             Filter(IsFlattenedMap, DeclFields)[1],
                             Filter(IsFlattenedMap, DeclFields)[2]))

(* three flattened maps, the first of them skipped as well: the error names  *)
(* the first and the second                                                  *)
C3_Witness ==
    /\ IsNamedStruct /\ pc = "error"
    /\ Len(Filter(IsFlattenedMap, DeclFields)) = 3
    /\ DeclFields[1].attrs.serde.skip
    /\ diagnostics = Some(Diagnostics("multiple flattened map fields",
                            <<TypeIdent, FieldIdent(1), FieldIdent(2)>>))

ItemCalls(node) == Filter(LAMBDA c : c.m = "item", node.calls)
AdditionalProperties(node) == Filter(LAMBDA c : c.m = "additional_properties", node.calls)
OneMapOnePlain ==
    /\ IsNamedStruct
    /\ Len(Filter(IsFlattenedMap, DeclFields)) = 1
    /\ Len(Filter(IsFlattenedPlain, DeclFields)) = 1

----------------------------------------------------------------------------
(* Enum declarations and the tokens emitted for them.                        *)
IsEnum == schema.data.kind = "Enum"
DeclVariants == schema.data.variants
DeclRepr == schema.attributes.container.enum_repr
(* Complex: some variant, skipped or not, carries fields                     *)
IsComplexEnum == IsEnum /\ \E i \in 1..Len(DeclVariants) : DeclVariants[i].fields.kind # "Unit"
IsKeptVariant(v) == ~v.attrs.serde.skip
KeptVariants == Filter(IsKeptVariant, DeclVariants)
IsTuple(v) == v.fields.kind = "Unnamed" /\ Len(v.fields.list) >= 2

(* the name a variant resolves to: serde's rename, else the schema           *)
(* attribute's rename, else the container's rename_all applied to the        *)
(* identifier, else the identifier                                           *)
VariantResolvedName(v) ==
    IF IsSome(v.attrs.serde.rename) THEN Unwrap(v.attrs.serde.rename)
    ELSE IF HasFeature(v.attrs.features, "Rename")
         THEN v.attrs.features[FirstFeature(v.attrs.features, "Rename")].s
         ELSE IF IsSome(DeclRenameAll)
              THEN RenameRule_rename(Unwrap(DeclRenameAll), v.ident)
              ELSE v.ident

(* C5 as stated: a tagged enum that declares a positional variant of two or  *)
(* more fields fails and emits nothing.                                      *)
C5_AnyTupleFails ==
    (IsEnum /\ DeclRepr.kind \in {"InternallyTagged", "AdjacentlyTagged"}
        /\ (\E i \in 1..Len(DeclVariants) : IsTuple(DeclVariants[i]))
        /\ pc \in {"extend", "done", "error", "panicked"})
    => (pc = "error" /\ tokens = <<>>)

(* C5, amended: an internally or adjacently tagged enum that declares a      *)
(* positional variant of two or more fields that is not skipped fails with   *)
(* an error and emits nothing.                                               *)
C5_KeptTupleFails ==
    (IsEnum /\ DeclRepr.kind \in {"InternallyTagged", "AdjacentlyTagged"}
        /\ (\E i \in 1..Len(KeptVariants) : IsTuple(KeptVariants[i]))
        /\ pc \in {"extend", "done", "error", "panicked"})
    => (pc = "error" /\ tokens = <<>> /\ IsSome(diagnostics))

(* an adjacently tagged enum fails on its second variant, a kept tuple       *)
C5_Witness ==
    /\ IsEnum /\ DeclRepr.kind = "AdjacentlyTagged"
    /\ Len(DeclVariants) = 2 /\ DeclVariants[1].fields.kind = "Named"
    /\ IsTuple(DeclVariants[2]) /\ IsKeptVariant(DeclVariants[2])
    /\ pc = "error"
    /\ diagnostics = Some(Diagnostics("unnamed variants unsupported for adjacently tagged enums",
                                      <<VariantIdent(2)>>))

Discriminators(node) ==
    Filter(LAMBDA c : c.m \in {"with_discriminator(Some)", "with_discriminator(None)"},
           node.calls)

(* C7 as stated: the union of a Complex enum carries the tag as              *)
(* discriminator under the externally, internally and adjacently tagged      *)
(* representations and none under the untagged one.                          *)
C7_DiscriminatorUnlessUntagged ==
    (Done /\ IsComplexEnum) =>
        /\ Len(Discriminators(Emitted)) = 1
        /\ IF DeclRepr.kind = "Untagged"
           THEN Discriminators(Emitted)[1].m = "with_discriminator(None)"
           ELSE /\ Discriminators(Emitted)[1].m = "with_discriminator(Some)"
                /\ Discriminators(Emitted)[1].k = DeclRepr.tag

(* C7, amended: the union of a Complex enum carries the tag's property name  *)
(* as discriminator when the representation is InternallyTagged or           *)
(* AdjacentlyTagged, and no discriminator when it is ExternallyTagged or     *)
(* Untagged.                                                                 *)
C7_DiscriminatorWhenTagNamed ==
    (Done /\ IsComplexEnum) =>
        /\ Emitted.base = "CustomEnum"
        /\ Len(Discriminators(Emitted)) = 1
        /\ IF DeclRepr.kind \in {"InternallyTagged", "AdjacentlyTagged"}
           THEN /\ Discriminators(Emitted)[1].m = "with_discriminator(Some)"
                /\ Discriminators(Emitted)[1].k = DeclRepr.tag
           ELSE Discriminators(Emitted)[1].m = "with_discriminator(None)"

(* an adjacently tagged Complex enum of two variants, emitted                *)
C7_Witness ==
    /\ Done /\ IsComplexEnum /\ DeclRepr.kind = "AdjacentlyTagged"
    /\ Len(Emitted.items) = 2
    /\ Discriminators(Emitted)[1].k = TagName

(* C9 as stated: under ExternallyTagged a unit variant of a Complex enum is  *)
(* an object with the one key of the variant's resolved name.                *)
C9_UnitIsKeyedObject ==
    (Done /\ IsComplexEnum /\ DeclRepr.kind = "ExternallyTagged") =>
        \A i \in 1..Len(KeptVariants) :
            KeptVariants[i].fields.kind = "Unit" =>
                /\ Emitted.items[i].base = "ObjectVariant"
                /\ Emitted.items[i].values = <<VariantResolvedName(KeptVariants[i])>>

(* C9, amended: under ExternallyTagged a unit variant that is not skipped is *)
(* emitted, in a Complex enum too, as a string enumeration whose only value  *)
(* is the variant's resolved name, the form of a Simple enum's values; it is *)
(* no keyed object.                                                          *)
C9_UnitIsStringValue ==
    (Done /\ IsEnum /\ DeclRepr.kind = "ExternallyTagged") =>
        IF IsComplexEnum
        THEN /\ Len(Emitted.items) = Len(KeptVariants)
             /\ \A i \in 1..Len(KeptVariants) :
                    KeptVariants[i].fields.kind = "Unit" =>
                        /\ Emitted.items[i].base = "Enum"
                        /\ Emitted.items[i].values = <<VariantResolvedName(KeptVariants[i])>>
                        /\ Emitted.items[i].items = <<>>
        ELSE /\ Emitted.base = "Enum"
             /\ Emitted.values = MapSeq(VariantResolvedName, KeptVariants)

(* a renamed, titled unit variant after a named variant                      *)
C9_Witness ==
    /\ Done /\ IsComplexEnum /\ DeclRepr.kind = "ExternallyTagged"
    /\ Len(KeptVariants) = 2
    /\ KeptVariants[1].fields.kind = "Named"
    /\ KeptVariants[2].fields.kind = "Unit" /\ IsSome(KeptVariants[2].attrs.serde.rename)
    /\ Emitted.items[2].base = "Enum"
    /\ Emitted.items[2].values = << <<"z">> >>

(* the property names of a named variant's own object (no field of a        *)
(* variant is renamed in these declarations)                                 *)
VariantFieldNames(v) == MapSeq(DeclIdent, Filter(IsPropertyDecl, v.fields.list))
IsTagProperty(c, v) ==
    /\ c.m = "property" /\ c.k = DeclRepr.tag
    /\ c.arg = <<Enum_new(<<VariantResolvedName(v)>>)>>

(* C10: under InternallyTagged a named variant is its own object, the        *)
(* properties and required names of its fields unchanged, with the tag       *)
(* added last as a required property whose only value is the variant's       *)
(* resolved name; a unit variant is an object with that property alone.      *)
C10_TagAddedToObject ==
    (Done /\ IsComplexEnum /\ DeclRepr.kind = "InternallyTagged") =>
        \A i \in 1..Len(KeptVariants) :
            KeptVariants[i].fields.kind \in {"Named", "Unit"} =>
                /\ Emitted.items[i].base = "ObjectBuilder"
                /\ PropertyNames(Emitted.items[i])
                        = (IF KeptVariants[i].fields.kind = "Named"
                           THEN VariantFieldNames(KeptVariants[i]) ELSE <<>>)
                          \o <<DeclRepr.tag>>
                /\ RequiredNames(Emitted.items[i])[Len(RequiredNames(Emitted.items[i]))]
                        = DeclRepr.tag
                /\ \E j \in 1..Len(Emitted.items[i].calls) :
                        IsTagProperty(Emitted.items[i].calls[j], KeptVariants[i])

----------------------------------------------------------------------------
(* C6: Schema::to_tokens is atomic.  The caller's token stream changes in    *)
(* one step only, the last one, which is taken after the primary schema,     *)
(* every alias schema and every alias lifetime extraction have succeeded     *)
(* and appends the whole output at once; a call that returns an error        *)
(* leaves the stream exactly as it was before the call.                      *)
C6_Atomic ==
    [][/\ tokens' # tokens =>
            /\ pc = "extend" /\ pc' = "done"
            /\ diagnostics' = None
            /\ IsSome(variant) /\ IsSome(variant_tokens)
            /\ SubSeq(tokens', 1, Len(tokens)) = tokens
            /\ Len(tokens') = Len(tokens) + 1
       /\ pc' = "error" => (tokens' = tokens /\ IsSome(diagnostics'))]_vars

(* an alias schema or an alias lifetime extraction has failed, after the     *)
(* primary variant was built, with output of an earlier call in the stream   *)
C6_Witness ==
    /\ pc = "error"
    /\ tokens \in PriorTokens /\ tokens # <<>>
    /\ IsSome(schema.aliases)
    /\ IsSome(variant)

----------------------------------------------------------------------------
DeclHasAs == HasFeature(schema.attributes.features, "As")
DeclAs == schema.attributes.features[FirstFeature(schema.attributes.features, "As")].path
IsUnitStruct == schema.data.kind = "Struct" /\ schema.data.fields.kind = "Unit"
LastSegment(path) == path.segments[Len(path.segments)]

(* the segments of a path as written, the last one without its generic       *)
(* arguments, joined by "."                                                  *)
SegmentText(segment, keep_arguments) ==
    IF keep_arguments /\ segment.arguments # <<>>
    THEN <<segment.ident, " ", "<", " ">>
         \o tokens_to_string(comma_separated(segment.arguments)) \o <<" ", ">">>
    ELSE <<segment.ident>>
RECURSIVE DottedSegments(_)
DottedSegments(segments) ==
    IF Len(segments) = 1 THEN SegmentText(segments[1], FALSE)
    ELSE SegmentText(segments[1], TRUE) \o <<".">> \o DottedSegments(Tail(segments))
DottedPath(path) ==
    (IF path.leading_colon THEN <<"::", " ">> ELSE <<>>) \o DottedSegments(path.segments)

(* C8: the resolved schema name is the type's own identifier when the        *)
(* declaration has no `as` override, and with an override it is the last     *)
(* segment of the override's path without its generic arguments.             *)
C8_LastSegmentIsName ==
    IsSome(name) =>
        Unwrap(name) = IF DeclHasAs THEN <<LastSegment(DeclAs).ident>> ELSE schema.ident

(* C8, as the code has it: the resolved schema name is the type's own        *)
(* identifier when the declaration has no `as` override or is a unit         *)
(* struct; otherwise it is the whole override path, every segment in         *)
(* order, the last segment without its generic arguments, and each `::`      *)
(* between two segments rendered as `.` (a leading `::` stays in front).     *)
C8_WholePathIsName ==
    IsSome(name) =>
        Unwrap(name) = IF DeclHasAs /\ ~IsUnitStruct THEN DottedPath(DeclAs) ELSE schema.ident

(* an override path of two segments, the last with generic arguments, has    *)
(* named the output                                                          *)
C8_Witness ==
    /\ Done
    /\ DeclHasAs /\ ~IsUnitStruct
    /\ Len(DeclAs.segments) = 2
    /\ LastSegment(DeclAs).arguments # <<>>
    /\ tokens[Len(tokens)].name = <<DeclAs.segments[1].ident, ".", LastSegment(DeclAs).ident>>

----------------------------------------------------------------------------
(* The schema struct synthesis yields for a variant's own shape: the         *)
(* variant's fields and attributes, its features without the title and the   *)
(* rename that name the variant itself.                                      *)
IsVariantOwnFeature(feature) == feature.f \notin {"Title", "Rename"}
VariantOwnFeatures(v) == Filter(IsVariantOwnFeature, v.attrs.features)
VariantInnerSchema(v) ==
    IF v.fields.kind = "Named"
    THEN NamedStructSchema_to_tokens(
            variant_named_struct([enum_name |-> schema.ident], v, VariantOwnFeatures(v))).val
    ELSE UnnamedStructSchema_to_tokens(
            variant_unnamed_struct([enum_name |-> schema.ident], v, VariantOwnFeatures(v))).val
HasPayload(v) ==
    v.fields.kind = "Named" \/ (v.fields.kind = "Unnamed" /\ Len(v.fields.list) = 1)
PropertiesNamed(node, k) == Filter(LAMBDA c : c.m = "property" /\ c.k = k, node.calls)

----------------------------------------------------------------------------
(* what struct synthesis yields for a variant's shape when nothing that      *)
(* names the variant is handed to it: its fields, its attributes and its     *)
(* features other than the rename                                            *)
IsNotRename(feature) == feature.f # "Rename"
UnnamedVariantSchema(v) ==
    IF v.fields.kind = "Named"
    THEN NamedStructSchema_to_tokens(
            variant_named_struct([enum_name |-> schema.ident], v,
                                 Filter(IsNotRename, v.attrs.features)))
    ELSE IF v.fields.kind = "Unnamed"
    THEN UnnamedStructSchema_to_tokens(
            variant_unnamed_struct([enum_name |-> schema.ident], v,
                                   Filter(IsNotRename, v.attrs.features)))
    ELSE Ok(Extend(UntaggedEnum_new, title_calls(Filter(IsTitle, v.attrs.features))))

(* C12: under Untagged each variant's fragment is exactly the schema struct  *)
(* synthesis yields for the variant's own shape (the empty schema for a unit *)
(* variant), without a wrapping object or a tag, and it depends neither on   *)
(* the variant's name nor on a rename rule.                                  *)
C12_FragmentIsOwnSchema ==
    (Done /\ IsComplexEnum /\ DeclRepr.kind = "Untagged") =>
        \A i \in 1..Len(KeptVariants) :
            Emitted.items[i] = UnnamedVariantSchema(KeptVariants[i]).val

----------------------------------------------------------------------------
IsUnnamedStruct == schema.data.kind = "Struct" /\ schema.data.fields.kind = "Unnamed"
CallsNamed(node, m) == Filter(LAMBDA c : c.m = m, node.calls)
IsArrayOf(node, n) ==
    /\ Len(CallsNamed(node, "to_array_builder")) = 1
    /\ MapSeq(LAMBDA c : c.n, CallsNamed(node, "max_items")) = <<n>>
    /\ MapSeq(LAMBDA c : c.n, CallsNamed(node, "min_items")) = <<n>>
IsNoArray(node) ==
    /\ CallsNamed(node, "to_array_builder") = <<>>
    /\ CallsNamed(node, "max_items") = <<>>
    /\ CallsNamed(node, "min_items") = <<>>
FieldTypesIdentical == \A i \in 1..Len(DeclFields) : DeclFields[i].ty = DeclFields[1].ty
(* the type the shared field schema is resolved from: the struct's           *)
(* value_type override when given, else the fields' type                     *)
SharedFieldType ==
    IF HasFeature(schema.attributes.features, "ValueType")
    THEN schema.attributes.features[FirstFeature(schema.attributes.features, "ValueType")].ty
    ELSE DeclFields[1].ty

(* C13: a positional struct of N fields is wrapped in an array with          *)
(* minItems = maxItems = N exactly when N > 1; the item (the whole schema    *)
(* for N = 1) is the shared field schema when all field types are            *)
(* identical, and a free-form object when they differ.                       *)
C13_ArrayIffSeveral ==
    (Done /\ IsUnnamedStruct) =>
        /\ IF Len(DeclFields) > 1
           THEN IsArrayOf(Emitted, Len(DeclFields)) ELSE IsNoArray(Emitted)
        /\ IF FieldTypesIdentical
           THEN /\ Emitted.base = "Schema"
                /\ Len(Emitted.cs) = 1
                /\ Emitted.cs[1].type_tree = SharedFieldType
           ELSE /\ Emitted.base = "ObjectBuilder"
                /\ Emitted.cs = <<>>
                /\ PropertyNames(Emitted) = <<>>

(* three fields of one type: an array of exactly three of the shared schema  *)
C13_Witness ==
    /\ Done /\ IsUnnamedStruct
    /\ Len(DeclFields) = 3 /\ FieldTypesIdentical
    /\ Emitted.base = "Schema" /\ Emitted.cs[1].type_tree = TString
    /\ IsArrayOf(Emitted, 3)

----------------------------------------------------------------------------
(* The classification EnumSchema::new has chosen.                            *)
Classified == IsEnum /\ IsSome(variant)
Classification == Unwrap(variant).schema.kind
AllDeclVariantsUnit == \A i \in 1..Len(DeclVariants) : DeclVariants[i].fields.kind = "Unit"
DeclaresRepr == IsSome(schema.attributes.repr)

(* C14 as stated: an enum is Simple, or Discriminant when it declares a      *)
(* numeric base type, exactly when every variant is a unit variant, and      *)
(* Complex otherwise.                                                        *)
C14_ReprIsDiscriminant ==
    (IsEnum /\ pc # "start") =>
        /\ IsSome(variant)
        /\ Classification = IF AllDeclVariantsUnit
                            THEN (IF DeclaresRepr THEN "Repr" ELSE "Simple")
                            ELSE "Complex"

(* C14, amended: an enum is Simple, or Discriminant when it declares a       *)
(* numeric base type and the macro is built with its `repr` feature,         *)
(* exactly when every one of its variants is a unit variant, and Complex     *)
(* otherwise; every enum gets exactly one of the three.                      *)
C14_ReprNeedsBuildFeature ==
    (IsEnum /\ pc # "start") =>
        /\ IsSome(variant)
        /\ Classification = IF AllDeclVariantsUnit
                            THEN (IF DeclaresRepr /\ schema.cfg_repr THEN "Repr" ELSE "Simple")
                            ELSE "Complex"

(* two unit variants under #[repr(u8)], built with the feature: values are   *)
(* the discriminants                                                         *)
C14_Witness ==
    /\ Done /\ IsEnum /\ Len(DeclVariants) = 2 /\ AllDeclVariantsUnit
    /\ DeclaresRepr /\ schema.cfg_repr /\ DeclRepr.kind = "ExternallyTagged"
    /\ Classification = "Repr"
    /\ Len(Emitted.values) = 2
    /\ Emitted.values[1] = <<"Self::">> \o VariantIdent(1) \o <<" as ">> \o ReprU8

----------------------------------------------------------------------------
(* The one precedence of name resolution: the explicit rename (serde's, else *)
(* the schema attribute's), else the inherited rename_all applied to the     *)
(* identifier, else the identifier; a raw identifier counts without its r#.  *)
PrecedenceName(item) == ResolvedName(item)
(* the name under which a union item or enumeration value is emitted         *)
EmittedVariantNames ==
    IF IsComplexEnum
    THEN MapSeq(LAMBDA item : IF Len(item.values) = 1 THEN item.values[1] ELSE <<>>,
                Emitted.items)
    ELSE Emitted.values

(* C15: fields and variants resolve their names by one precedence, the       *)
(* explicit rename, else the inherited rename-all transform of the           *)
(* identifier, else the identifier without a raw-identifier prefix r#, and   *)
(* every field and variant that is emitted gets a name.                      *)
C15_OnePrecedence ==
    /\ (Done /\ IsNamedStruct) =>
            PropertyNames(MainObject(Emitted)) = MapSeq(PrecedenceName, PropertyDecls)
    /\ (Done /\ IsEnum /\ DeclRepr.kind = "ExternallyTagged") =>
            EmittedVariantNames = MapSeq(PrecedenceName, KeptVariants)
    /\ IsNamedStruct \/ (IsEnum /\ DeclRepr.kind = "ExternallyTagged") => pc # "error"

----------------------------------------------------------------------------
(* The final node of an emitted schema: the calls made on the array when the *)
(* builder was turned into one, else all of its calls, and the properties    *)
(* handed to ComponentSchema when the node is built by it.                   *)
ArrayAt(node) == CHOOSE i \in 1..Len(node.calls) : node.calls[i].m = "to_array_builder"
FinalCalls(node) ==
    IF CallsNamed(node, "to_array_builder") = <<>> THEN node.calls
    ELSE SubSeq(node.calls, ArrayAt(node) + 1, Len(node.calls))
FinalProps(node) ==
    IF node.base = "Schema" /\ CallsNamed(node, "to_array_builder") = <<>> THEN node.cs
    ELSE <<>>
CarriesDescription(node) ==
    \/ \E i \in 1..Len(FinalCalls(node)) : FinalCalls(node)[i].m = "description"
    \/ \E i \in 1..Len(FinalProps(node)) : FinalProps(node)[i].description # <<>>
EmitsEmptyDescription(node) ==
    \E i \in 1..Len(node.calls) : node.calls[i].m = "description" /\ node.calls[i].k = <<>>
DeclDoc == schema.attributes.doc

(* C16: whatever the shape of the type, a named, positional or unit struct   *)
(* or an enum, the final node has a description exactly when the             *)
(* declaration has doc-comment text, and no empty description is emitted.    *)
C16_DescriptionIffDoc ==
    Done =>
        /\ CarriesDescription(Emitted) <=> DeclDoc # <<>>
        /\ ~EmitsEmptyDescription(Emitted)

(* the final node is marked deprecated                                       *)
MarkedDeprecated(node) ==
    \/ \E i \in 1..Len(FinalCalls(node)) : FinalCalls(node)[i].m = "deprecated"
    \/ \E i \in 1..Len(FinalProps(node)) : FinalProps(node)[i].deprecated = Some("True")
(* the schema of the k-th property of a named struct's object                *)
PropertySchema(k) == Filter(IsPropertyCall, MainObject(Emitted).calls)[k].arg[1]

(* C17: whatever the shape of the type, a declaration marked #[deprecated]   *)
(* gives a final node marked deprecated; and a field marked #[deprecated]    *)
(* is deprecated whether or not it also has the schema attribute's           *)
(* deprecated.                                                               *)
C17_DeprecationUniform ==
    /\ (Done /\ schema.attributes.deprecated) => MarkedDeprecated(Emitted)
    /\ (Done /\ IsNamedStruct) =>
            \A k \in 1..Len(PropertyDecls) :
                PropertyDecls[k].attrs.deprecated =>
                    PropertySchema(k).cs[1].deprecated = Some("True")

----------------------------------------------------------------------------
(* the node closes the object to further properties                          *)
IsFreeFormFalse(c) ==
    c.m = "additional_properties" /\ c.arg = <<Node("FreeForm(false)", <<>>)>>
DeniesAdditional(node) == \E i \in 1..Len(node.calls) : IsFreeFormFalse(node.calls[i])
NoFieldFlattened == \A i \in 1..Len(DeclFields) : ~DeclFields[i].attrs.serde.flatten

(* C18: the object of a named-field struct is closed with                    *)
(* additionalProperties = false exactly when the container denies unknown    *)
(* fields and none of its fields is flattened, be it an object or a map.     *)
C18_ClosedIffDenyAndNoFlatten ==
    (Done /\ IsNamedStruct) =>
        ((DeniesAdditional(Emitted) \/ DeniesAdditional(MainObject(Emitted)))
            <=> (DeclContainerRules.deny_unknown_fields /\ NoFieldFlattened))

----------------------------------------------------------------------------
(* The enumeration value of a variant: its resolved name, or its             *)
(* discriminant expression in a Discriminant enum.                           *)
EnumValueOf(v) ==
    IF Classification = "Repr"
    THEN <<"Self::">> \o v.ident \o <<" as ">> \o Unwrap(schema.attributes.repr)
    ELSE VariantResolvedName(v)
(* the union item is the fragment of the variant: it carries the variant's   *)
(* name where the representation has one, and has the variant's shape        *)
ItemIsOf(item, v) ==
    IF DeclRepr.kind = "ExternallyTagged"
    THEN /\ item.values = <<VariantResolvedName(v)>>
         /\ item.base = IF v.fields.kind = "Unit" THEN "Enum" ELSE "ObjectVariant"
    ELSE IF DeclRepr.kind = "Untagged"
    THEN IF v.fields.kind = "Unit" THEN item.base = "UntaggedEnum"
         ELSE PropertyNames(item) = VariantFieldNames(v)
    ELSE Len(Filter(LAMBDA c : IsTagProperty(c, v), item.calls)) = 1
ItemsAreKeptVariants ==
    /\ Len(Emitted.items) = Len(KeptVariants)
    /\ \A i \in 1..Len(KeptVariants) : ItemIsOf(Emitted.items[i], KeptVariants[i])

(* C19 as stated: under every classification and representation the union    *)
(* items of a Complex enum, and the enumeration values of a Simple or         *)
(* Discriminant one, are those of the non-skipped variants, one each, in      *)
(* declaration order.                                                        *)
C19_OnePerKeptVariant ==
    (Done /\ IsEnum) =>
        IF Classification = "Complex" THEN ItemsAreKeptVariants
        ELSE Emitted.values = MapSeq(EnumValueOf, KeptVariants)

(* C19, amended: the union items of a Complex enum under every               *)
(* representation, and the enumeration values of a Simple or Discriminant    *)
(* enum under every representation but Untagged, are those of the            *)
(* non-skipped variants, one each, in declaration order; a Simple or         *)
(* Discriminant enum under Untagged is one schema without enumeration        *)
(* values, whatever its variants.                                            *)
C19_OnePerKeptVariantUnlessUntaggedUnits ==
    (Done /\ IsEnum) =>
        IF Classification = "Complex" THEN ItemsAreKeptVariants
        ELSE IF DeclRepr.kind = "Untagged"
        THEN Emitted.base = "UntaggedEnum" /\ Emitted.values = <<>> /\ Emitted.items = <<>>
        ELSE Emitted.values = MapSeq(EnumValueOf, KeptVariants)

(* three variants, the second skipped, under a tag: the items are those of   *)
(* the first and the third                                                   *)
C19_Witness ==
    /\ Done /\ IsEnum /\ Classification = "Complex"
    /\ DeclRepr.kind = "InternallyTagged"
    /\ Len(DeclVariants) = 3 /\ ~IsKeptVariant(DeclVariants[2])
    /\ DeclVariants[1].fields.kind = "Named" /\ DeclVariants[3].fields.kind = "Unit"
    /\ Len(Emitted.items) = 2
    /\ ItemIsOf(Emitted.items[2], DeclVariants[3])

----------------------------------------------------------------------------
(* The declaration under one alias binding: every occurrence of a type       *)
(* parameter in a field's type replaced by the binding's argument for it.    *)
RECURSIVE SubstTy(_, _)
SubstTy(ty, pairs) ==
    IF \E i \in 1..Len(pairs) : pairs[i].old.name = ty.name
    THEN pairs[CHOOSE i \in 1..Len(pairs) : pairs[i].old.name = ty.name].new
    ELSE Ty(ty.name, MapSeq(LAMBDA a : SubstTy(a, pairs), ty.args))
SubstField(field, pairs) == [field EXCEPT !.ty = SubstTy(@, pairs)]
SubstFields(fields, pairs) ==
    [fields EXCEPT !.list = MapSeq(LAMBDA f : SubstField(f, pairs), @)]
SubstData(data, pairs) ==
    [data EXCEPT !.fields = SubstFields(@, pairs),
                 !.variants = MapSeq(LAMBDA v : [v EXCEPT !.fields = SubstFields(@, pairs)], @)]
BindingPairs(alias) ==
    IF IsSome(alias_pairs_of(alias, schema.generics))
    THEN Unwrap(alias_pairs_of(alias, schema.generics)) ELSE <<>>
(* the schema a full synthesis gives the declaration under the binding       *)
SynthesisUnder(alias) ==
    SchemaVariant_to_tokens(
        SchemaVariant_new(SubstData(schema.data, BindingPairs(alias)), schema.attributes,
                          schema.ident, schema.generics, None, schema.cfg_repr).val).val
DeclBindings == Unwrap(schema.aliases)
EmittedAliases == tokens[Len(tokens)].aliases
EmittedTypeAliases == tokens[Len(tokens)].type_aliases

(* C20: a generic struct or enum with N alias bindings is emitted with N     *)
(* (alias name, schema) pairs and N type-alias declarations, one per         *)
(* binding in binding order, each schema the full synthesis of the           *)
(* declaration with the binding's arguments substituted for the type         *)
(* parameters.                                                               *)
C20_OnePerBinding ==
    (Done /\ IsSome(schema.aliases)) =>
        /\ IsSome(EmittedAliases) /\ IsSome(EmittedTypeAliases)
        /\ Len(Unwrap(EmittedAliases)) = Len(DeclBindings)
        /\ Len(Unwrap(EmittedTypeAliases)) = Len(DeclBindings)
        /\ \A i \in 1..Len(DeclBindings) :
                /\ Unwrap(EmittedAliases)[i].name = DeclBindings[i].name
                /\ Unwrap(EmittedAliases)[i].tokens = SynthesisUnder(DeclBindings[i])
                /\ Unwrap(EmittedTypeAliases)[i].name = DeclBindings[i].name
                /\ Unwrap(EmittedTypeAliases)[i].ty = DeclBindings[i].ty

----------------------------------------------------------------------------
(* the type the k-th property of the i-th alias schema is resolved from      *)
AliasPropertyType(i, k) ==
    Filter(IsPropertyCall, MainObject(Unwrap(EmittedAliases)[i].tokens).calls)[k]
        .arg[1].cs[1].type_tree
AliasNamesEmitted == MapSeq(LAMBDA a : a.name, Unwrap(EmittedAliases))
AliasedNamedStruct == Done /\ IsNamedStruct /\ IsSome(schema.aliases)

(* C21: in the schema of an alias every occurrence of a bound type           *)
(* parameter in a field's type, several in one type included, is replaced    *)
(* by the binding's type for it, and no alias name is emitted twice.         *)
C21_EveryOccurrenceReplaced ==
    AliasedNamedStruct =>
        /\ \A i \in 1..Len(DeclBindings) : \A k \in 1..Len(PropertyDecls) :
                AliasPropertyType(i, k)
                    = SubstTy(PropertyDecls[k].ty, BindingPairs(DeclBindings[i]))
        /\ NoDuplicates(AliasNamesEmitted)

----------------------------------------------------------------------------
Reverse(sq) == [i \in 1..Len(sq) |-> sq[Len(sq) + 1 - i]]
IsParamOf(ty, pairs) == \E j \in 1..Len(pairs) : pairs[j].old = ty
ArgumentFor(ty, pairs) == pairs[CHOOSE j \in 1..Len(pairs) : pairs[j].old = ty].new

(* C29: the substitution of a binding acts on a field's type all at once:    *)
(* the type in the alias schema is the same whatever the order of the        *)
(* binding's (parameter, type) pairs, and a field whose type is a parameter  *)
(* gets the binding's type for that parameter, which no other pair of the    *)
(* binding rewrites.                                                         *)
C29_SimultaneousSubstitution ==
    AliasedNamedStruct =>
        \A i \in 1..Len(DeclBindings) : \A k \in 1..Len(PropertyDecls) :
            /\ AliasPropertyType(i, k)
                    = apply_aliases(PropertyDecls[k].ty,
                                    Reverse(BindingPairs(DeclBindings[i])), 1)
            /\ IsParamOf(PropertyDecls[k].ty, BindingPairs(DeclBindings[i])) =>
                    AliasPropertyType(i, k)
                        = ArgumentFor(PropertyDecls[k].ty, BindingPairs(DeclBindings[i]))

----------------------------------------------------------------------------
(* every lifetime written in a type, at any depth                            *)
RECURSIVE LifetimesIn(_)
LifetimesIn(ty) ==
    IF ty.kind = "Lifetime" THEN {ty}
    ELSE UNION {LifetimesIn(ty.args[i]) : i \in 1..Len(ty.args)}
AliasParameters(i) == Range(Unwrap(EmittedTypeAliases)[i].name_generics)

(* C22: the parameters of an emitted type alias hold every lifetime of the   *)
(* alias's target type but 'static, at whatever depth it is written, and     *)
(* never 'static.                                                            *)
C22_LifetimesThreaded ==
    (Done /\ IsSome(schema.aliases)) =>
        \A i \in 1..Len(DeclBindings) :
            /\ LifetimesIn(DeclBindings[i].ty) \ {StaticLifetime} \subseteq AliasParameters(i)
            /\ StaticLifetime \notin AliasParameters(i)

(* a type that is no path, the target itself or nested in its arguments      *)
RECURSIVE HasNonPath(_)
HasNonPath(ty) ==
    /\ ty.kind # "Lifetime"
    /\ \/ ty.kind # "Path"
       \/ \E i \in 1..Len(ty.args) : HasNonPath(ty.args[i])
SomeBindingHasNonPath ==
    /\ IsSome(schema.aliases)
    /\ \E i \in 1..Len(DeclBindings) : HasNonPath(DeclBindings[i].ty)

(* C23: when the target type of a binding, or a type nested in its generic   *)
(* arguments, is no path type, synthesis ends with an error about the        *)
(* unsupported type and emits nothing.                                       *)
C23_NonPathFails ==
    SomeBindingHasNonPath =>
        /\ pc \notin {"name", "variant_tokens", "extend", "done"}
        /\ tokens = <<>>
        /\ pc = "error" =>
                Unwrap(diagnostics).kind = "get_lifetimes only supports syn::TypePath types"

----------------------------------------------------------------------------
IsSingleton(v) == v.fields.kind = "Unnamed" /\ Len(v.fields.list) = 1
(* the inner type is a reference to a schema of its own, no scalar           *)
InnerIsReference(v) == v.fields.list[1].ty.name \notin {"String", "i32", "bool"}
TagObject(v) ==
    Node("ObjectBuilder",
         <<Call("schema_type", <<"Object">>, <<>>),
           Call("property", DeclRepr.tag, <<Enum_new(<<VariantResolvedName(v)>>)>>),
           Call("required", DeclRepr.tag, <<>>)>>)
ItemsOf(node) == MapSeq(LAMBDA c : c.arg[1], CallsNamed(node, "item"))

(* C24: under InternallyTagged{tag} a positional variant of one field whose  *)
(* inner type is a reference is the AllOf of the inner schema and an object  *)
(* with the required tag property valued by the variant's name; with any     *)
(* other inner type the inner schema itself is typed Object and gets the     *)
(* tag property and its required entry.                                      *)
C24_SingletonUnderTag ==
    (Done /\ IsComplexEnum /\ DeclRepr.kind = "InternallyTagged") =>
        \A i \in 1..Len(KeptVariants) :
            IsSingleton(KeptVariants[i]) =>
                IF InnerIsReference(KeptVariants[i])
                THEN /\ Emitted.items[i].base = "AllOfBuilder"
                     /\ ItemsOf(Emitted.items[i])
                            = <<VariantInnerSchema(KeptVariants[i]), TagObject(KeptVariants[i])>>
                ELSE /\ Emitted.items[i].base = VariantInnerSchema(KeptVariants[i]).base
                     /\ Emitted.items[i].cs = VariantInnerSchema(KeptVariants[i]).cs
                     /\ Emitted.items[i].calls
                            = VariantInnerSchema(KeptVariants[i]).calls
                                \o TagObject(KeptVariants[i]).calls

(* a variant over a reference and one over a string, under a tag             *)
C24_Witness ==
    /\ Done /\ IsComplexEnum /\ DeclRepr.kind = "InternallyTagged"
    /\ Len(KeptVariants) = 2
    /\ IsSingleton(KeptVariants[1]) /\ InnerIsReference(KeptVariants[1])
    /\ IsSingleton(KeptVariants[2]) /\ ~InnerIsReference(KeptVariants[2])
    /\ Emitted.items[1].base = "AllOfBuilder"
    /\ Len(PropertiesNamed(Emitted.items[2], TagName)) = 1

----------------------------------------------------------------------------
IsDefaultFeature(feature) == feature.f = "Default"
(* the default features the k-th property's schema is built with             *)
PropertyDefaults(k) == Filter(IsDefaultFeature, PropertySchema(k).cs[1].features)
ContainerIsDefault ==
    DeclContainerRules.default \/ HasFeature(schema.attributes.features, "Default")
(* the field's value in the struct's Default value                           *)
DefaultFromContainer(field) ==
    Feature("Default", <<"default_trait">> \o schema.ident \o <<".">> \o field.ident)

(* C25: in a struct defaulted by the serde rule or by the schema attribute   *)
(* a field without a default of its own gets the default of that field in    *)
(* the struct's Default value; a field with a default of its own keeps it    *)
(* and gets no other; in a struct that is not defaulted a field gets none.   *)
C25_ContainerDefault ==
    (Done /\ IsNamedStruct) =>
        \A k \in 1..Len(PropertyDecls) :
            PropertyDefaults(k)
                = IF HasFeature(PropertyDecls[k].attrs.features, "Default")
                  THEN Filter(IsDefaultFeature, PropertyDecls[k].attrs.features)
                  ELSE IF ContainerIsDefault
                       THEN <<DefaultFromContainer(PropertyDecls[k])>>
                       ELSE <<>>

(* a struct defaulted by serde: the first field has its own default, the     *)
(* second gets the struct's                                                  *)
C25_Witness ==
    /\ Done /\ IsNamedStruct /\ DeclContainerRules.default
    /\ Len(PropertyDecls) = 2
    /\ PropertyDefaults(1) = <<OwnDefault>>
    /\ PropertyDefaults(2) = <<DefaultFromContainer(DeclFields[2])>>

----------------------------------------------------------------------------
(* the declaration without its skipped fields, and what synthesis gives it   *)
WithoutSkipped(data) ==
    [data EXCEPT !.fields.list = Filter(IsNotSkippedDecl, @)]
SynthesisWithoutSkipped ==
    SchemaVariant_to_tokens(
        SchemaVariant_new(WithoutSkipped(schema.data), schema.attributes, schema.ident,
                          schema.generics, None, schema.cfg_repr).val)

(* C26: a skipped field has no part in the result of a named-field struct:   *)
(* the schema, or the error, is that of the struct without its skipped       *)
(* fields, also when a skipped field is flattened or is a flattened map.     *)
C26_SkippedFieldsInert ==
    IsNamedStruct =>
        /\ pc \in {"extend", "done"} =>
                /\ SynthesisWithoutSkipped.ok
                /\ Unwrap(variant_tokens) = SynthesisWithoutSkipped.val
        /\ pc = "error" =>
                /\ ~SynthesisWithoutSkipped.ok
                /\ Unwrap(diagnostics) = SynthesisWithoutSkipped.err

----------------------------------------------------------------------------
HasPositionalVariant ==
    IsEnum /\ \E i \in 1..Len(DeclVariants) : DeclVariants[i].fields.kind = "Unnamed"

(* C27: the synthesis of a positional struct, or of an enum with a           *)
(* positional variant, of any number of fields, none included, ends with a   *)
(* schema or with an error; it never aborts.                                 *)
C27_NeverAborts ==
    (IsUnnamedStruct \/ HasPositionalVariant) => pc # "panicked"

----------------------------------------------------------------------------
SerdeRename(item) == item.attrs.serde.rename
SchemaRename(item) ==
    IF HasFeature(item.attrs.features, "Rename")
    THEN Some(item.attrs.features[FirstFeature(item.attrs.features, "Rename")].s)
    ELSE None
SerdeRenameAll == DeclContainerRules.rename_all
SchemaRenameAll ==
    IF HasFeature(schema.attributes.features, "RenameAll")
    THEN Some(schema.attributes.features[
                    FirstFeature(schema.attributes.features, "RenameAll")].s[1])
    ELSE None
(* the name of a field or variant emitted under `emitted`, its identifier    *)
(* being `ident`, takes serde's rule where serde and the schema attribute    *)
(* both give one, and the schema attribute's only where serde gives none     *)
SerdeWins(item, ident, emitted) ==
    /\ IsSome(SerdeRename(item)) => emitted = Unwrap(SerdeRename(item))
    /\ (~IsSome(SerdeRename(item)) /\ IsSome(SchemaRename(item))) =>
            emitted = Unwrap(SchemaRename(item))
    /\ (~IsSome(SerdeRename(item)) /\ ~IsSome(SchemaRename(item)) /\ IsSome(SerdeRenameAll)) =>
            emitted = RenameRule_rename(Unwrap(SerdeRenameAll), ident)
    /\ (~IsSome(SerdeRename(item)) /\ ~IsSome(SchemaRename(item)) /\ ~IsSome(SerdeRenameAll)
            /\ IsSome(SchemaRenameAll)) =>
            emitted = RenameRule_rename(Unwrap(SchemaRenameAll), ident)

(* C28: of two sources of one naming rule serde's wins: a serde rename over  *)
(* the schema attribute's rename of the same field or variant, and the       *)
(* container's serde rename_all over the schema attribute's rename_all; the  *)
(* schema attribute's is used only where serde's is absent.                  *)
C28_SerdeOverSchemaFeature ==
    /\ (Done /\ IsNamedStruct) =>
            \A k \in 1..Len(PropertyDecls) :
                SerdeWins(PropertyDecls[k], DeclIdent(PropertyDecls[k]),
                          PropertyNames(MainObject(Emitted))[k])
    /\ (Done /\ IsEnum /\ DeclRepr.kind = "ExternallyTagged") =>
            /\ Len(EmittedVariantNames) = Len(KeptVariants)
            /\ \A k \in 1..Len(KeptVariants) :
                    SerdeWins(KeptVariants[k], KeptVariants[k].ident, EmittedVariantNames[k])

(* a variant renamed by serde and by the schema attribute, then a variant    *)
(* renamed by neither under a rename_all of both                             *)
C28_Witness ==
    /\ Done /\ IsEnum /\ Len(KeptVariants) = 2
    /\ IsSome(SerdeRename(KeptVariants[1])) /\ IsSome(SchemaRename(KeptVariants[1]))
    /\ ~IsSome(SerdeRename(KeptVariants[2])) /\ ~IsSome(SchemaRename(KeptVariants[2]))
    /\ IsSome(SerdeRenameAll) /\ IsSome(SchemaRenameAll)
    /\ EmittedVariantNames = << <<"z">>, <<"B">> >>

----------------------------------------------------------------------------
(* C30: a declaration with an `as` override is named by the override,        *)
(* whatever its shape: named struct, positional struct, unit struct or       *)
(* enum.                                                                     *)
C30_OverrideNamesEveryShape ==
    (IsSome(name) /\ DeclHasAs) => Unwrap(name) = DottedPath(DeclAs)

====
